---- MODULE Spec2Model ----
(***************************************************************************)
(* Model of the wait/poll engine of cboone/crawler: Terminal.WaitFor,      *)
(* Terminal.WaitForScreen (both waitForInternal) and Terminal.WaitExit,    *)
(* together with the tmux pane they poll (liveness, visible text, cursor)  *)
(* and the wall clock.  Durations and instants are integers (ms).          *)
(* Strings are sequences of one-character strings.                         *)
(***************************************************************************)
EXTENDS Integers, Sequences, FiniteSets, TLC

(***************************************************************************)
(* Bounds of the model.                                                    *)
(***************************************************************************)
\* largest number of time.Sleep calls of one wait call that is explored
MaxSleeps == 3
\* the clock saturates here; larger than every deadline the model can set
MaxClock == 20
\* a wait call starts no later than this instant
MaxStart == 5
\* amount by which the environment advances the clock in one step
TickStep == 5

(***************************************************************************)
(* Program constants.                                                      *)
(***************************************************************************)
minPollInterval == 10
failureCaptureHistory == 3

(***************************************************************************)
(* Input domains.                                                          *)
(***************************************************************************)
\* session defaults set with WithTimeout / WithPollInterval (not validated)
SessionDefaults ==
    { [timeout |-> 10, pollInterval |-> 5],
      [timeout |-> 0,  pollInterval |-> 20],
      [timeout |-> -5, pollInterval |-> 0] }
\* arguments of WithinTimeout and WithWaitPollInterval
CallTimeouts == {-5, 0, 5}
CallPollIntervals == {-5, 0, 5, 20}
ExitStatuses == {0, 1}
\* raw capture-pane outputs of the pane
PaneTexts == { <<"o", "k", "\n">>, <<"n", "o", "\r", "\n">> }
\* arguments <<width, height>> of Resize
ResizeSizes == { <<6, 3>> }
\* outcomes of the cursor query: the record with err set, or a position
CursorReplies ==
    { [err |-> TRUE, row |-> 0, col |-> 0],
      [err |-> FALSE, row |-> 1, col |-> 2] }

\* the counters of a call stop at MaxCount, above every value they take in
\* a call of at most MaxSleeps sleeps
MaxCount == MaxSleeps + 1
Inc(n) == IF n < MaxCount THEN n + 1 ELSE n

Min(a, b) == IF a < b THEN a ELSE b
Max(a, b) == IF a > b THEN a ELSE b

(***************************************************************************)
(* Strings.                                                                *)
(***************************************************************************)
RECURSIVE ReplaceAllCRLF(_)
ReplaceAllCRLF(s) ==
    IF s = <<>> THEN <<>>
    ELSE IF Len(s) >= 2 /\ s[1] = "\r" /\ s[2] = "\n"
         THEN <<"\n">> \o ReplaceAllCRLF(SubSeq(s, 3, Len(s)))
         ELSE <<s[1]>> \o ReplaceAllCRLF(Tail(s))

TrimSuffixNL(s) ==
    IF Len(s) >= 1 /\ s[Len(s)] = "\n" THEN SubSeq(s, 1, Len(s) - 1) ELSE s

RECURSIVE SplitNL(_)
SplitNL(s) ==
    IF \E i \in 1..Len(s) : s[i] = "\n"
    THEN LET i == CHOOSE j \in 1..Len(s) :
                     s[j] = "\n" /\ \A k \in 1..(j - 1) : s[k] # "\n"
         IN <<SubSeq(s, 1, i - 1)>> \o SplitNL(SubSeq(s, i + 1, Len(s)))
    ELSE <<s>>

StringsContains(s, sub) ==
    \E i \in 1..(Len(s) - Len(sub) + 1) : SubSeq(s, i, i + Len(sub) - 1) = sub

(***************************************************************************)
(* Screen (screen.go).  ptr is the identity of the allocated *Screen; the  *)
(* nil pointer is the record with ptr = 0.                                 *)
(***************************************************************************)
NilScreen ==
    [ptr |-> 0, lines |-> <<>>, raw |-> <<>>, width |-> 0, height |-> 0,
     cursorRow |-> -1, cursorCol |-> -1]

\* strings.TrimRight(s, "\n") in the place of TrimSuffix
RECURSIVE TrimRightNL(_)
TrimRightNL(s) ==
    IF s # <<>> /\ s[Len(s)] = "\n"
    THEN TrimRightNL(SubSeq(s, 1, Len(s) - 1))
    ELSE s

\* variant: every trailing newline is removed
newScreen_TrimAll(raw, width, height, ptr) ==
    LET r == TrimRightNL(ReplaceAllCRLF(raw))
    IN [ptr |-> ptr, lines |-> SplitNL(r), raw |-> r,
        width |-> width, height |-> height,
        cursorRow |-> -1, cursorCol |-> -1]

newScreen(raw, width, height, ptr) ==
    LET r == TrimSuffixNL(ReplaceAllCRLF(raw))
    IN [ptr |-> ptr, lines |-> SplitNL(r), raw |-> r,
        width |-> width, height |-> height,
        cursorRow |-> -1, cursorCol |-> -1]

\* variant: only the row is assigned
withCursor_RowOnly(scr, reply) ==
    IF reply.err THEN scr ELSE [scr EXCEPT !.cursorRow = reply.row]

\* the assignment of the cursor fields after a getCursorPosition call
withCursor(scr, reply) ==
    IF reply.err THEN scr
    ELSE [scr EXCEPT !.cursorRow = reply.row, !.cursorCol = reply.col]

(***************************************************************************)
(* Matchers (match.go).  A matcher is a record naming its constructor and  *)
(* arguments; MatcherEval applies it to a Screen.                          *)
(***************************************************************************)
Text(s) == [op |-> "Text", s |-> s]
Line(n, s) == [op |-> "Line", n |-> n, s |-> s]
LineContains(n, substr) == [op |-> "LineContains", n |-> n, s |-> substr]
Not(m) == [op |-> "Not", m |-> m]
All(matchers) == [op |-> "All", matchers |-> matchers]
\* Any in match.go; the TLC module already defines the name Any
AnyOf(matchers) == [op |-> "Any", matchers |-> matchers]
Cursor(row, col) == [op |-> "Cursor", row |-> row, col |-> col]

Matchers == { Text(<<"o", "k">>), Cursor(1, 2) }
NoMatcher == [op |-> "none", s |-> <<>>]

\* The result of applying a matcher: ok and desc are the two values the
\* closure returns; fault is set when the closure panics instead of
\* returning; evaluated lists, in call order, the positions of the
\* sub-matchers the closure called.
Returns(ok, desc) ==
    [ok |-> ok, desc |-> desc, fault |-> FALSE, evaluated |-> <<>>]

\* the slice expression lines[n]: a run-time panic outside 0..len(lines)-1
Index(lines, n) ==
    IF n >= 0 /\ n < Len(lines)
    THEN [fault |-> FALSE, v |-> lines[n + 1]]
    ELSE [fault |-> TRUE, v |-> <<>>]

\* strings.TrimRight(s, " ")
RECURSIVE TrimRightSpace(_)
TrimRightSpace(s) ==
    IF s # <<>> /\ s[Len(s)] = " "
    THEN TrimRightSpace(SubSeq(s, 1, Len(s) - 1))
    ELSE s

\* the closure returned by Text(s), applied to scr
TextEval(m, scr) ==
    Returns(StringsContains(scr.raw, m.s),
            [pattern |-> "screen to contain", arg |-> m.s])

\* variant: only the upper end of the range is checked
LineEval_UpperOnly(m, scr) ==
    LET desc == [pattern |-> "line to equal", n |-> m.n, arg |-> m.s]
        l == Index(scr.lines, m.n)
    IN IF m.n >= Len(scr.lines) THEN Returns(FALSE, desc)
       ELSE [ok |-> ~l.fault /\ TrimRightSpace(l.v) = m.s, desc |-> desc,
             fault |-> l.fault, evaluated |-> <<>>]

\* the closure returned by Line(n, s), applied to scr
LineEval(m, scr) ==
    LET desc == [pattern |-> "line to equal", n |-> m.n, arg |-> m.s]
        l == Index(scr.lines, m.n)
    IN IF m.n < 0 \/ m.n >= Len(scr.lines) THEN Returns(FALSE, desc)
       ELSE [ok |-> ~l.fault /\ TrimRightSpace(l.v) = m.s, desc |-> desc,
             fault |-> l.fault, evaluated |-> <<>>]

\* the closure returned by LineContains(n, substr), applied to scr
LineContainsEval(m, scr) ==
    LET desc == [pattern |-> "line to contain", n |-> m.n, arg |-> m.s]
        l == Index(scr.lines, m.n)
    IN IF m.n < 0 \/ m.n >= Len(scr.lines) THEN Returns(FALSE, desc)
       ELSE [ok |-> ~l.fault /\ StringsContains(l.v, m.s), desc |-> desc,
             fault |-> l.fault, evaluated |-> <<>>]

\* the closure returned by Cursor(row, col), applied to scr
CursorEval(m, scr) ==
    IF scr.cursorRow = m.row /\ scr.cursorCol = m.col
    THEN Returns(TRUE,
                 [pattern |-> "cursor at", row |-> m.row, col |-> m.col])
    ELSE Returns(FALSE,
                 [pattern |-> "cursor at (actual)",
                  row |-> m.row, col |-> m.col,
                  actualRow |-> scr.cursorRow,
                  actualCol |-> scr.cursorCol])

RECURSIVE MatcherEval(_, _)

\* variant: the result of the inner matcher is passed through
NotEval_PassThrough(m, scr) ==
    LET r == MatcherEval(m.m, scr)
    IN [ok |-> r.ok, desc |-> [pattern |-> "NOT", arg |-> r.desc],
        fault |-> r.fault, evaluated |-> <<1>>]

\* the closure returned by Not(m), applied to scr
NotEval(m, scr) ==
    LET r == MatcherEval(m.m, scr)
    IN [ok |-> ~r.ok, desc |-> [pattern |-> "NOT", arg |-> r.desc],
        fault |-> r.fault, evaluated |-> <<1>>]

\* The loop of All from position i on; descs and evaluated are what the
\* earlier iterations collected.
RECURSIVE AllLoop(_, _, _, _, _)
AllLoop(matchers, scr, i, descs, evaluated) ==
    IF i > Len(matchers)
    THEN [ok |-> TRUE, desc |-> [pattern |-> "all of", arg |-> descs],
          fault |-> FALSE, evaluated |-> evaluated]
    ELSE LET r == MatcherEval(matchers[i], scr)
             ds == Append(descs, r.desc)
             ev == Append(evaluated, i)
         IN IF r.fault
            THEN [ok |-> FALSE, desc |-> [pattern |-> "all of", arg |-> ds],
                  fault |-> TRUE, evaluated |-> ev]
            ELSE IF ~r.ok
            THEN [ok |-> FALSE, desc |-> [pattern |-> "all of", arg |-> ds],
                  fault |-> FALSE, evaluated |-> ev]
            ELSE AllLoop(matchers, scr, i + 1, ds, ev)

\* variant: the description lists every sub-matcher
AllEval_DescribeAll(m, scr) ==
    [AllLoop(m.matchers, scr, 1, <<>>, <<>>) EXCEPT
        !.desc.arg = [i \in 1..Len(m.matchers) |->
                         MatcherEval(m.matchers[i], scr).desc]]

\* the closure returned by All(matchers...), applied to scr
AllEval(m, scr) == AllLoop(m.matchers, scr, 1, <<>>, <<>>)

\* the loop of Any from position i on
RECURSIVE AnyLoop(_, _, _, _, _)
AnyLoop(matchers, scr, i, descs, evaluated) ==
    IF i > Len(matchers)
    THEN [ok |-> FALSE, desc |-> [pattern |-> "any of", arg |-> descs],
          fault |-> FALSE, evaluated |-> evaluated]
    ELSE LET r == MatcherEval(matchers[i], scr)
             ds == Append(descs, r.desc)
             ev == Append(evaluated, i)
         IN IF r.fault
            THEN [ok |-> FALSE, desc |-> [pattern |-> "any of", arg |-> ds],
                  fault |-> TRUE, evaluated |-> ev]
            ELSE IF r.ok
            THEN [ok |-> TRUE, desc |-> [pattern |-> "any of", arg |-> ds],
                  fault |-> FALSE, evaluated |-> ev]
            ELSE AnyLoop(matchers, scr, i + 1, ds, ev)

\* variant: the result after the loop is true
AnyEval_EndsTrue(m, scr) ==
    LET r == AnyLoop(m.matchers, scr, 1, <<>>, <<>>)
    IN IF Len(r.evaluated) = Len(m.matchers) /\ ~r.ok /\ ~r.fault
       THEN [r EXCEPT !.ok = TRUE] ELSE r

\* the closure returned by Any(matchers...), applied to scr
AnyEval(m, scr) == AnyLoop(m.matchers, scr, 1, <<>>, <<>>)

\* a Matcher applied to a Screen
MatcherEval(m, scr) ==
    CASE m.op = "Text" -> TextEval(m, scr)
      [] m.op = "Line" -> LineEval(m, scr)
      [] m.op = "LineContains" -> LineContainsEval(m, scr)
      [] m.op = "Not" -> NotEval(m, scr)
      [] m.op = "All" -> AllEval(m, scr)
      [] m.op = "Any" -> AnyEval(m, scr)
      [] m.op = "Cursor" -> CursorEval(m, scr)

\* the initial value of lastDesc in waitForInternal
PlaceholderDesc == [pattern |-> "matcher condition", arg |-> <<>>]

(***************************************************************************)
(* Wait options (options.go).  A WaitOption is a record naming the         *)
(* constructor and its argument; applying it assigns one field of          *)
(* waitOptions.  The options of a call are applied in order.               *)
(***************************************************************************)
WithinTimeout(d) == [opt |-> "WithinTimeout", d |-> d]
WithWaitPollInterval(d) == [opt |-> "WithWaitPollInterval", d |-> d]

WaitOptions ==
    { WithinTimeout(d) : d \in CallTimeouts }
        \cup { WithWaitPollInterval(d) : d \in CallPollIntervals }

\* the argument lists of a wait call: zero, one or two options
WaitOptionLists ==
    { <<>> } \cup { <<o>> : o \in WaitOptions }
        \cup { <<o1, o2>> : o1 \in WaitOptions, o2 \in WaitOptions }

ApplyWaitOption(o, wo) ==
    IF o.opt = "WithinTimeout" THEN [wo EXCEPT !.timeout = o.d]
    ELSE [wo EXCEPT !.pollInterval = o.d]

waitOptionsZero == [timeout |-> 0, pollInterval |-> 0]

RECURSIVE ApplyWaitOptions(_, _)
ApplyWaitOptions(wopts, wo) ==
    IF wopts = <<>> THEN wo
    ELSE ApplyWaitOptions(Tail(wopts), ApplyWaitOption(Head(wopts), wo))

(***************************************************************************)
(* Per-call configuration of waitForInternal.                              *)
(***************************************************************************)
\* variant: the poll interval is not validated
waitForConfigError_NoPollCheck(wo) ==
    IF wo.timeout < 0 THEN "negative timeout" ELSE "none"

\* which t.Fatalf of the configuration block is reached, if any
waitForConfigError(wo) ==
    IF wo.timeout < 0 THEN "negative timeout"
    ELSE IF wo.pollInterval < 0 THEN "negative poll interval"
    ELSE "none"

\* variant: an override of zero is taken as a zero timeout
waitForTimeout_ZeroOverrides(o, wo) ==
    IF wo.timeout >= 0 THEN wo.timeout ELSE o.timeout

waitForTimeout(o, wo) ==
    IF wo.timeout > 0 THEN wo.timeout ELSE o.timeout

waitForPollInterval(o, wo) ==
    IF wo.pollInterval > 0
    THEN IF wo.pollInterval < minPollInterval THEN minPollInterval
         ELSE wo.pollInterval
    ELSE o.pollInterval

(***************************************************************************)
(* Per-call configuration of WaitExit (the same block, written again).     *)
(***************************************************************************)
waitExitConfigError(wo) ==
    IF wo.timeout < 0 THEN "negative timeout"
    ELSE IF wo.pollInterval < 0 THEN "negative poll interval"
    ELSE "none"

waitExitTimeout(o, wo) ==
    IF wo.timeout > 0 THEN wo.timeout ELSE o.timeout

\* variant: the override is not clamped to the floor
waitExitPollInterval_NoClamp(o, wo) ==
    IF wo.pollInterval > 0 THEN wo.pollInterval ELSE o.pollInterval

waitExitPollInterval(o, wo) ==
    IF wo.pollInterval > 0
    THEN IF wo.pollInterval < minPollInterval THEN minPollInterval
         ELSE wo.pollInterval
    ELSE o.pollInterval

(***************************************************************************)
(* Control flow of the polling loops.                                      *)
(***************************************************************************)
\* time.Now().After(deadline)
After(t, deadline) == t > deadline

\* variant: the loop tests the deadline before its first iteration
waitForLoopEntry_DeadlineFirst(t, deadline) ==
    IF t < deadline THEN "query" ELSE "TimedOut"

\* variant: the loop sleeps before its first iteration
waitForLoopEntry_SleepFirst(t, deadline) == "sleep"

\* the unconditional "for {": the loop body is entered at the liveness query
waitForLoopEntry(t, deadline) == "query"

\* after getPaneState in waitForInternal: the death report is taken only
\* when the query succeeded and reports the pane dead
waitForAfterQuery(st) ==
    IF ~st.err /\ st.dead THEN "death" ELSE "capture"

\* variant: the death report keeps the description of the previous iteration
waitForDeathDesc_KeepOld(evaluated, desc, lastDesc) == lastDesc

\* if lastScreen != nil { _, lastDesc = m(lastScreen) }
waitForDeathDesc(evaluated, desc, lastDesc) ==
    IF evaluated THEN desc ELSE lastDesc

\* variant: a match on the final frame counts as success
waitForDeathOutcome_UseMatch(ok) ==
    IF ok THEN "Succeeded" ELSE "ProcessDied"

\* the death report ends in t.Fatalf whatever the matcher returned
waitForDeathOutcome(ok) == "ProcessDied"

\* variant: a failed capture is skipped, as in WaitExit
waitForAfterCapture_Skip(captureErr) ==
    IF captureErr THEN "sleep" ELSE "eval"

\* if captureErr != nil { t.Fatalf(...) }
waitForAfterCapture(captureErr) ==
    IF captureErr THEN "AdapterFailure" ELSE "eval"

\* variant: the deadline is tested before the match result
waitForAfterEval_DeadlineFirst(ok, t, deadline) ==
    IF After(t, deadline) THEN "TimedOut"
    ELSE IF ok THEN "Succeeded"
    ELSE "sleep"

\* after the matcher evaluation of a live iteration
waitForAfterEval(ok, t, deadline) ==
    IF ok THEN "Succeeded"
    ELSE IF After(t, deadline) THEN "TimedOut"
    ELSE "sleep"

\* variant: the oldest Screen of the history is returned
waitForReturn_Oldest(lastScr, recent) == Head(recent)

\* return lastScreen
waitForReturn(lastScr, recent) == lastScr

\* variant: the loop tests the deadline before its first iteration
waitExitLoopEntry_DeadlineFirst(t, deadline) ==
    IF t < deadline THEN "query" ELSE "TimedOut"

\* variant: the loop sleeps before its first iteration
waitExitLoopEntry_SleepFirst(t, deadline) == "sleep"

waitExitLoopEntry(t, deadline) == "query"

\* variant: a dead pane is reported as a failure, as in waitForInternal
waitExitAfterQuery_DeadIsFailure(st) ==
    IF st.err THEN "AdapterFailure"
    ELSE IF st.dead THEN "ProcessDied"
    ELSE "capture"

\* after getPaneState in WaitExit
waitExitAfterQuery(st) ==
    IF st.err THEN "AdapterFailure"
    ELSE IF st.dead THEN "Exited"
    ELSE "capture"

\* variant: the loop never tests the deadline
waitExitAfterCapture_NoDeadline(t, deadline) == "sleep"

\* after the capture of a WaitExit iteration
waitExitAfterCapture(t, deadline) ==
    IF After(t, deadline) THEN "TimedOut" ELSE "sleep"

\* variant: a full history keeps its oldest entries and drops the new one
appendRecentScreens_KeepOldest(screens, scr, max) ==
    IF scr.ptr = 0 THEN screens
    ELSE LET appended == Append(screens, scr)
         IN IF Len(appended) > max THEN SubSeq(appended, 1, max)
            ELSE appended

\* variant: the new Screen is put in front of the history
appendRecentScreens_NewestFirst(screens, scr, max) ==
    IF scr.ptr = 0 THEN screens
    ELSE LET appended == <<scr>> \o screens
         IN IF Len(appended) > max THEN SubSeq(appended, 1, max)
            ELSE appended

appendRecentScreens(screens, scr, max) ==
    IF scr.ptr = 0 THEN screens
    ELSE LET appended == Append(screens, scr)
         IN IF Len(appended) > max
            THEN SubSeq(appended, Len(appended) - max + 1, Len(appended))
            ELSE appended

(***************************************************************************)
(* State.                                                                  *)
(***************************************************************************)
VARIABLES
    opts,           \* term.opts: width, height, timeout, pollInterval
    pane,           \* the tmux pane: dead, exitStatus, text
    now,            \* the wall clock
    test,           \* the testing.TB: "running" or "failed"
    call,           \* the wait call in progress: kind, matcher m, waitOptions wo
    pc,             \* position of the call
    timeout,        \* local: effective timeout
    pollInterval,   \* local: effective poll interval
    deadline,       \* local: deadline
    state,          \* local: last getPaneState reply (err, dead, exitStatus)
    lastScreen,     \* local: lastScreen
    lastDesc,       \* local: lastDesc
    recentScreens,  \* local: recentScreens
    result,         \* how the call ended: kind, returned value, Fatalf arguments
    hist,           \* history of the call: counters of adapter calls and sleeps
    term,           \* the Terminal's runner, socketPath and pane identifier
    lastResize,     \* the last Resize call: width, height, whether it returned
    openers,        \* per test: position in Open, locals, Terminal, cleanups
    tmp,            \* the socket paths that exist in os.TempDir()
    servers,        \* per socket path: the tmux server and its sessions
    boot,           \* the start of Open: tmux path resolution and version check
    match,          \* a Matcher applied to a Screen: inputs and result
    snap,           \* a MatchSnapshot call: Screen text, environment, golden file
    fn              \* sanitizeName, newScreen or Scrollback applied to an input

locals == <<timeout, pollInterval, deadline, state, lastScreen, lastDesc,
            recentScreens>>
vars == <<opts, pane, now, test, call, pc, timeout, pollInterval, deadline,
          state, lastScreen, lastDesc, recentScreens, result, hist, term,
          lastResize, openers, tmp, servers, boot, match, snap, fn>>
openVars == <<openers, tmp, servers>>
pureVars == <<boot, match, snap, fn>>
waitVars == <<opts, pane, now, test, call, pc, timeout, pollInterval,
              deadline, state, lastScreen, lastDesc, recentScreens, result,
              hist, term, lastResize>>

WaitKinds == {"WaitFor", "WaitForScreen", "WaitExit"}

NoCall == [kind |-> "none", m |-> NoMatcher, wo |-> waitOptionsZero]
NoState == [err |-> FALSE, dead |-> FALSE, exitStatus |-> 0]
NoResult ==
    [kind |-> "none", screen |-> NilScreen, status |-> 0,
     desc |-> PlaceholderDesc, history |-> <<>>, reason |-> "none"]
\* the fields of the Terminal assigned once by Open
OpenedTerminal ==
    [runner |-> [tmuxPath |-> "tmux", socketPath |-> "sock-a"],
     socketPath |-> "sock-a", pane |-> "%0"]
NoResize == [width |-> 0, height |-> 0, ok |-> FALSE]
NoHist ==
    [start |-> 0, queries |-> 0, captures |-> 0, screens |-> 0, evals |-> 0,
     sleeps |-> 0, deadAtEntry |-> FALSE, deathCaptureErr |-> FALSE,
     deadAtCapture |-> FALSE]

\* Open has not started resolving the tmux binary
NoBoot ==
    [pc |-> "resolve", configured |-> "", env |-> "", lookPath |-> "",
     version |-> [err |-> TRUE, text |-> <<>>, major |-> 0, minor |-> 0],
     tmuxPath |-> "", explicit |-> FALSE, outcome |-> "none",
     versionCalls |-> 0, sessions |-> 0]

BootIdle == boot = NoBoot

\* no matcher is being applied
NoEval == [ok |-> FALSE, desc |-> PlaceholderDesc, fault |-> FALSE,
           evaluated |-> <<>>]
NoMatch == [pc |-> "idle", m |-> NoMatcher, scr |-> NilScreen, r |-> NoEval]
MatchIdle == match = NoMatch

\* the golden file: absent, or its bytes
NoFile == [exists |-> FALSE, bytes |-> <<>>]
File(bytes) == [exists |-> TRUE, bytes |-> bytes]

\* MatchSnapshot is not called; before is the golden file at the call
NoSnap ==
    [pc |-> "idle", text |-> <<>>, update |-> "", io |-> "ok",
     before |-> NoFile, file |-> NoFile, content |-> <<>>,
     outcome |-> "none"]
SnapIdle == snap = NoSnap

\* none of sanitizeName, newScreen and Scrollback is called
NoFn ==
    [pc |-> "idle", op |-> "none", name |-> <<>>, raw |-> <<>>,
     st |-> [err |-> FALSE, dead |-> FALSE, exitStatus |-> 0],
     captureErr |-> FALSE, sanitized |-> <<>>, scr |-> NilScreen,
     outcome |-> "none"]
FnIdle == fn = NoFn

PureIdle == BootIdle /\ MatchIdle /\ SnapIdle /\ FnIdle

\* the tests that call Open, in parallel
Openers == {"t1", "t2"}
\* sanitizeName(t.Name()) of a test, and the values of the random suffix
TestNames == {"TestA", "TestB"}
Suffixes == {"00000000", "00000001"}
\* "crawler-<name>-<suffix>.sock" in os.TempDir()
SocketPath(name, suffix) == <<name, suffix>>
SocketPaths == { SocketPath(n, x) : n \in TestNames, x \in Suffixes }
\* the number of os.Stat calls of generateSocketPath
maxAttempts == 10

NoTerminal == [runner |-> <<>>, socketPath |-> <<>>, pane |-> "none"]
NoOpener(name) ==
    [pc |-> "resolve", name |-> name, suffix |-> "none", i |-> 0,
     test |-> "running", term |-> NoTerminal, cleanups |-> <<>>, kills |-> 0,
     checks |-> 0, missing |-> FALSE, failure |-> "none"]
NoServer == [running |-> FALSE, sessions |-> {}]

\* no Open in progress: the Terminal of the wait engine is already open
OpenIdle ==
    /\ openers = [o \in Openers |-> NoOpener("TestA")]
    /\ tmp = {}
    /\ servers = [p \in SocketPaths |-> NoServer]

WaitInit ==
    /\ opts \in { [width |-> 4, height |-> 2, timeout |-> d.timeout,
                   pollInterval |-> d.pollInterval] : d \in SessionDefaults }
    /\ pane \in { [dead |-> FALSE, exitStatus |-> 0, text |-> x] :
                    x \in PaneTexts }
    /\ now = 0
    /\ test = "running"
    /\ call = NoCall
    /\ pc = "idle"
    /\ timeout = 0
    /\ pollInterval = 0
    /\ deadline = 0
    /\ state = NoState
    /\ lastScreen = NilScreen
    /\ lastDesc = PlaceholderDesc
    /\ recentScreens = <<>>
    /\ result = NoResult
    /\ hist = NoHist
    /\ term = OpenedTerminal
    /\ lastResize = NoResize

\* a Terminal at rest, for the specifications that do not use it
WaitIdle ==
    /\ WaitInit
    /\ opts.timeout = 10
    /\ pane.text = <<"o", "k", "\n">>

Init == WaitInit /\ OpenIdle /\ PureIdle

(***************************************************************************)
(* The adapter (tmux.go).  Every command may fail; a command that succeeds *)
(* reports the pane as it is at that moment.                               *)
(***************************************************************************)
getPaneState ==
    { [err |-> TRUE, dead |-> FALSE, exitStatus |-> 0],
      [err |-> FALSE, dead |-> pane.dead,
       exitStatus |-> IF pane.dead THEN pane.exitStatus ELSE 0] }

capturePaneContent ==
    { [err |-> TRUE, raw |-> <<>>], [err |-> FALSE, raw |-> pane.text] }

getCursorPosition == CursorReplies

\* variant: a failed capture yields an empty Screen
captureScreenRaw_EmptyOnError(cap, cur, ptr) ==
    IF cap.err THEN newScreen(<<>>, opts.width, opts.height, ptr)
    ELSE withCursor(newScreen(cap.raw, opts.width, opts.height, ptr), cur)

\* Terminal.captureScreenRaw: nil when the capture fails
captureScreenRaw(cap, cur, ptr) ==
    IF cap.err THEN NilScreen
    ELSE withCursor(newScreen(cap.raw, opts.width, opts.height, ptr), cur)

(***************************************************************************)
(* How a call ends.  Succeeded and Exited return to the caller; the other  *)
(* outcomes are t.Fatalf calls, which stop the test.                       *)
(***************************************************************************)
Outcomes ==
    {"Succeeded", "Exited", "Captured", "TimedOut", "ProcessDied",
     "InvalidConfig", "AdapterFailure"}
Failures == Outcomes \ {"Succeeded", "Exited", "Captured"}

\* the new pc, test state and result for a control-flow target x
Goto(x, res) ==
    /\ pc' = IF x \in Outcomes THEN "done" ELSE x
    /\ test' = IF x \in Failures THEN "failed" ELSE test
    /\ result' = IF x \in Outcomes THEN [res EXCEPT !.kind = x] ELSE result

(***************************************************************************)
(* The environment: the clock advances, the driven process writes to the   *)
(* pane, the driven process exits (remain-on-exit keeps the pane).         *)
(***************************************************************************)
Tick ==
    /\ pc # "done"
    /\ now < MaxClock
    /\ pc = "idle" => now + TickStep <= MaxStart
    /\ now' = Min(now + TickStep, MaxClock)
    /\ UNCHANGED <<opts, pane, test, call, pc, locals, result, hist>>
    /\ UNCHANGED <<term, lastResize, openVars, pureVars>>

PaneOutput ==
    /\ pc # "done"
    /\ ~pane.dead
    /\ \E x \in PaneTexts \ {pane.text} : pane' = [pane EXCEPT !.text = x]
    /\ UNCHANGED <<opts, now, test, call, pc, locals, result, hist>>
    /\ UNCHANGED <<term, lastResize, openVars, pureVars>>

ProcessExit ==
    /\ pc # "done"
    /\ ~pane.dead
    /\ \E st \in ExitStatuses :
         pane' = [pane EXCEPT !.dead = TRUE, !.exitStatus = st]
    /\ UNCHANGED <<opts, now, test, call, pc, locals, result, hist>>
    /\ UNCHANGED <<term, lastResize, openVars, pureVars>>

(***************************************************************************)
(* Terminal.Screen: captureScreen("capture").                              *)
(***************************************************************************)
\* Terminal.requireAlive: t.Fatalf when the query succeeds and reports the
\* pane dead; a failed query returns silently
requireAlive(st) ==
    IF st.err THEN "return"
    ELSE IF st.dead THEN "ProcessDied"
    ELSE "return"

\* captureScreen after capturePaneContent
captureScreenAfterCapture(captureErr) ==
    IF captureErr THEN "AdapterFailure" ELSE "Captured"

ScreenEnter ==
    /\ pc = "idle"
    /\ test = "running"
    /\ call' = [kind |-> "Screen", m |-> NoMatcher, wo |-> waitOptionsZero]
    /\ hist' = [NoHist EXCEPT !.start = now, !.deadAtEntry = pane.dead]
    /\ state' = NoState
    /\ Goto("query", NoResult)
    /\ UNCHANGED <<opts, pane, now, timeout, pollInterval, deadline,
                   lastScreen, lastDesc, recentScreens>>
    /\ UNCHANGED <<term, lastResize, openVars, pureVars>>

\* term.requireAlive(op)
ScreenQuery ==
    /\ pc = "query"
    /\ call.kind = "Screen"
    /\ \E st \in getPaneState :
         /\ state' = st
         /\ hist' = [hist EXCEPT !.queries = Inc(@)]
         /\ Goto(IF requireAlive(st) = "return" THEN "capture"
                 ELSE requireAlive(st),
                 [NoResult EXCEPT !.status = st.exitStatus,
                                  !.reason = "process exited unexpectedly"])
    /\ UNCHANGED <<opts, pane, now, call, timeout, pollInterval, deadline,
                   lastScreen, lastDesc, recentScreens>>
    /\ UNCHANGED <<term, lastResize, openVars, pureVars>>

\* capture-pane, newScreen, best-effort cursor, return scr
ScreenCapture ==
    /\ pc = "capture"
    /\ call.kind = "Screen"
    /\ \E cap \in capturePaneContent, cur \in getCursorPosition :
         LET out == captureScreenAfterCapture(cap.err)
             scr == withCursor(newScreen(cap.raw, opts.width, opts.height,
                                         Inc(hist.screens)),
                               cur)
         IN /\ hist' = [hist EXCEPT
                          !.captures = Inc(@),
                          !.screens = IF cap.err THEN @ ELSE Inc(@)]
            /\ Goto(out,
                    [NoResult EXCEPT
                       !.screen = IF cap.err THEN NilScreen ELSE scr,
                       !.reason = IF cap.err THEN "capture failed"
                                  ELSE "none"])
    /\ UNCHANGED <<opts, pane, now, call, locals>>
    /\ UNCHANGED <<term, lastResize, openVars, pureVars>>

(***************************************************************************)
(* Terminal.Resize.                                                        *)
(***************************************************************************)
\* resize-window may fail
resizeWindow == BOOLEAN

\* variant: the arguments are stored the other way round
resizeOpts_Swapped(o, width, height) ==
    [o EXCEPT !.width = height, !.height = width]

\* term.opts.width = width; term.opts.height = height
resizeOpts(o, width, height) ==
    [o EXCEPT !.width = width, !.height = height]

\* variant: the declared size is assigned before the command is run
resizeDeclared_BeforeCommand(o, out, width, height) ==
    resizeOpts(o, width, height)

\* the two assignments stand after requireAlive and after the t.Fatalf of a
\* failed resize-window: they run only when Resize goes on to return
resizeDeclared(o, out, width, height) ==
    IF out = "idle" THEN resizeOpts(o, width, height) ELSE o

\* requireAlive, resize-window, then the declared size; the caller goes on
\* when Resize returns
Resize ==
    /\ pc = "idle"
    /\ test = "running"
    /\ \E sz \in ResizeSizes, st \in getPaneState, err \in resizeWindow :
         LET out == IF requireAlive(st) # "return" THEN requireAlive(st)
                    ELSE IF err THEN "AdapterFailure"
                    ELSE "idle"
         IN /\ opts' = resizeDeclared(opts, out, sz[1], sz[2])
            /\ lastResize' = [width |-> sz[1], height |-> sz[2],
                              ok |-> out = "idle"]
            /\ call' = IF out = "idle" THEN call
                       ELSE [kind |-> "Resize", m |-> NoMatcher,
                             wo |-> waitOptionsZero]
            /\ state' = st
            /\ Goto(out,
                    [NoResult EXCEPT
                       !.status = st.exitStatus,
                       !.reason = IF out = "ProcessDied"
                                  THEN "process exited unexpectedly"
                                  ELSE "resize failed"])
    /\ UNCHANGED <<pane, now, timeout, pollInterval, deadline, lastScreen,
                   lastDesc, recentScreens, hist, term, openVars, pureVars>>

(***************************************************************************)
(* Terminal.waitForInternal, called by WaitFor and WaitForScreen.          *)
(***************************************************************************)
\* entry: apply the options, resolve timeout and poll interval, set the
\* deadline and the loop locals
waitForInternal(kind, m, wopts) ==
    /\ pc = "idle"
    /\ test = "running"
    /\   LET wo == ApplyWaitOptions(wopts, waitOptionsZero)
             e == waitForConfigError(wo)
             dl == now + waitForTimeout(opts, wo)
         IN /\ call' = [kind |-> kind, m |-> m, wo |-> wo]
            /\ hist' = [NoHist EXCEPT !.start = now]
            /\ timeout' = waitForTimeout(opts, wo)
            /\ pollInterval' = IF e = "negative timeout" THEN pollInterval
                               ELSE waitForPollInterval(opts, wo)
            /\ deadline' = IF e = "none" THEN dl ELSE deadline
            /\ state' = NoState
            /\ lastScreen' = NilScreen
            /\ lastDesc' = PlaceholderDesc
            /\ recentScreens' = <<>>
            /\ IF e # "none"
               THEN Goto("InvalidConfig", [NoResult EXCEPT !.reason = e])
               ELSE Goto(waitForLoopEntry(now, dl),
                         [NoResult EXCEPT !.reason = "timed out"])
    /\ UNCHANGED <<opts, pane, now>>
    /\ UNCHANGED <<term, lastResize, openVars, pureVars>>

\* WaitFor(m, wopts...) and WaitForScreen(m, wopts...)
WaitForEnter ==
    \E kind \in {"WaitFor", "WaitForScreen"}, m \in Matchers,
       wopts \in WaitOptionLists : waitForInternal(kind, m, wopts)

\* state, err := getPaneState(...)
WaitForQuery ==
    /\ pc = "query"
    /\ call.kind \in {"WaitFor", "WaitForScreen"}
    /\ \E st \in getPaneState :
         /\ state' = st
         /\ Goto(waitForAfterQuery(st), NoResult)
    /\ hist' = [hist EXCEPT !.queries = Inc(@)]
    /\ UNCHANGED <<opts, pane, now, call, timeout, pollInterval, deadline,
                   lastScreen, lastDesc, recentScreens>>
    /\ UNCHANGED <<term, lastResize, openVars, pureVars>>

\* the death report: best-effort capture, description, t.Fatalf
WaitForDeath ==
    /\ pc = "death"
    /\ \E cap \in capturePaneContent, cur \in getCursorPosition :
         LET scr == captureScreenRaw(cap, cur, Inc(hist.screens))
             recent == appendRecentScreens(recentScreens, scr,
                                           failureCaptureHistory)
             r == MatcherEval(call.m, scr)
             evaluated == scr.ptr # 0
             desc == waitForDeathDesc(evaluated, r.desc, lastDesc)
             out == waitForDeathOutcome(evaluated /\ r.ok)
         IN /\ lastScreen' = scr
            /\ recentScreens' = recent
            /\ lastDesc' = desc
            /\ hist' = [hist EXCEPT
                          !.captures = Inc(@),
                          !.deathCaptureErr = cap.err,
                          !.screens = IF evaluated THEN Inc(@) ELSE @,
                          !.evals = IF evaluated THEN Inc(@) ELSE @]
            /\ Goto(out,
                    [NoResult EXCEPT
                       !.screen = IF out = "Succeeded"
                                     /\ call.kind = "WaitForScreen"
                                  THEN scr ELSE NilScreen,
                       !.status = state.exitStatus,
                       !.desc = desc,
                       !.history = recent,
                       !.reason = "process exited unexpectedly"])
    /\ UNCHANGED <<opts, pane, now, call, timeout, pollInterval, deadline,
                   state>>
    /\ UNCHANGED <<term, lastResize, openVars, pureVars>>

\* the capture of a live iteration: capture-pane, newScreen, cursor, history
WaitForCapture ==
    /\ pc = "capture"
    /\ call.kind \in {"WaitFor", "WaitForScreen"}
    /\ \E cap \in capturePaneContent, cur \in getCursorPosition :
         IF cap.err
         THEN /\ Goto(waitForAfterCapture(TRUE),
                      [NoResult EXCEPT !.reason = "capture failed"])
              /\ UNCHANGED <<lastScreen, recentScreens>>
              /\ hist' = [hist EXCEPT !.captures = Inc(@)]
         ELSE LET scr == withCursor(newScreen(cap.raw, opts.width,
                                              opts.height, Inc(hist.screens)),
                                    cur)
              IN /\ lastScreen' = scr
                 /\ recentScreens' =
                        appendRecentScreens(recentScreens, scr,
                                            failureCaptureHistory)
                 /\ hist' = [hist EXCEPT !.captures = Inc(@),
                                         !.screens = Inc(@),
                                         !.deadAtCapture = pane.dead]
                 /\ Goto(waitForAfterCapture(FALSE), NoResult)
    /\ UNCHANGED <<opts, pane, now, call, timeout, pollInterval, deadline,
                   state, lastDesc>>
    /\ UNCHANGED <<term, lastResize, openVars, pureVars>>

\* ok, desc := m(lastScreen); return on ok; otherwise the deadline check
WaitForEval ==
    /\ pc = "eval"
    /\ LET r == MatcherEval(call.m, lastScreen)
           out == waitForAfterEval(r.ok, now, deadline)
       IN /\ lastDesc' = r.desc
          /\ Goto(out,
                  [NoResult EXCEPT
                     !.screen = IF out = "Succeeded"
                                   /\ call.kind = "WaitForScreen"
                                THEN waitForReturn(lastScreen, recentScreens)
                                ELSE NilScreen,
                     !.desc = r.desc,
                     !.history = IF out = "Succeeded" THEN <<>>
                                 ELSE recentScreens,
                     !.reason = IF out = "Succeeded" THEN "none"
                                ELSE "timed out"])
    /\ hist' = [hist EXCEPT !.evals = Inc(@)]
    /\ UNCHANGED <<opts, pane, now, call, timeout, pollInterval, deadline,
                   state, lastScreen, recentScreens>>
    /\ UNCHANGED <<term, lastResize, openVars, pureVars>>

\* time.Sleep(pollInterval), then the next iteration
WaitForSleepStep ==
    /\ pc = "sleep"
    /\ call.kind \in {"WaitFor", "WaitForScreen"}
    /\ now' = Min(now + Max(pollInterval, 0), MaxClock)
    /\ pc' = "query"
    /\ hist' = [hist EXCEPT !.sleeps = Inc(@)]
    /\ UNCHANGED <<opts, pane, test, call, locals, result>>
    /\ UNCHANGED <<term, lastResize, openVars, pureVars>>

\* the same step in a call of at most MaxSleeps sleeps
WaitForSleep ==
    /\ hist.sleeps < MaxSleeps
    /\ WaitForSleepStep

(***************************************************************************)
(* Terminal.WaitExit.                                                      *)
(***************************************************************************)
WaitExit(wopts) ==
    /\ pc = "idle"
    /\ test = "running"
    /\   LET wo == ApplyWaitOptions(wopts, waitOptionsZero)
             e == waitExitConfigError(wo)
             dl == now + waitExitTimeout(opts, wo)
         IN /\ call' = [kind |-> "WaitExit", m |-> NoMatcher, wo |-> wo]
            /\ hist' = [NoHist EXCEPT !.start = now]
            /\ timeout' = waitExitTimeout(opts, wo)
            /\ pollInterval' = IF e = "negative timeout" THEN pollInterval
                               ELSE waitExitPollInterval(opts, wo)
            /\ deadline' = IF e = "none" THEN dl ELSE deadline
            /\ state' = NoState
            /\ recentScreens' = <<>>
            /\ IF e # "none"
               THEN Goto("InvalidConfig", [NoResult EXCEPT !.reason = e])
               ELSE Goto(waitExitLoopEntry(now, dl),
                         [NoResult EXCEPT !.reason = "timed out"])
    /\ UNCHANGED <<opts, pane, now, lastScreen, lastDesc>>
    /\ UNCHANGED <<term, lastResize, openVars, pureVars>>

WaitExitEnter == \E wopts \in WaitOptionLists : WaitExit(wopts)

\* getPaneState: a failed query is fatal, a dead pane is the return value
WaitExitQuery ==
    /\ pc = "query"
    /\ call.kind = "WaitExit"
    /\ \E st \in getPaneState :
         /\ state' = st
         /\ Goto(waitExitAfterQuery(st),
                 [NoResult EXCEPT
                    !.status = st.exitStatus,
                    !.reason = IF st.err THEN "pane state query failed"
                               ELSE "none"])
    /\ hist' = [hist EXCEPT !.queries = Inc(@)]
    /\ UNCHANGED <<opts, pane, now, call, timeout, pollInterval, deadline,
                   lastScreen, lastDesc, recentScreens>>
    /\ UNCHANGED <<term, lastResize, openVars, pureVars>>

\* the best-effort capture of a live iteration, then the deadline check
WaitExitCapture ==
    /\ pc = "capture"
    /\ call.kind = "WaitExit"
    /\ \E cap \in capturePaneContent, cur \in getCursorPosition :
         LET scr == captureScreenRaw(cap, cur, Inc(hist.screens))
             recent == appendRecentScreens(recentScreens, scr,
                                           failureCaptureHistory)
         IN /\ recentScreens' = recent
            /\ hist' = [hist EXCEPT
                          !.captures = Inc(@),
                          !.screens = IF scr.ptr # 0 THEN Inc(@) ELSE @]
            /\ Goto(waitExitAfterCapture(now, deadline),
                    [NoResult EXCEPT !.history = recent,
                                     !.reason = "timed out"])
    /\ UNCHANGED <<opts, pane, now, call, timeout, pollInterval, deadline,
                   state, lastScreen, lastDesc>>
    /\ UNCHANGED <<term, lastResize, openVars, pureVars>>

WaitExitSleepStep ==
    /\ pc = "sleep"
    /\ call.kind = "WaitExit"
    /\ now' = Min(now + Max(pollInterval, 0), MaxClock)
    /\ pc' = "query"
    /\ hist' = [hist EXCEPT !.sleeps = Inc(@)]
    /\ UNCHANGED <<opts, pane, test, call, locals, result>>
    /\ UNCHANGED <<term, lastResize, openVars, pureVars>>

\* the same step in a call of at most MaxSleeps sleeps
WaitExitSleep ==
    /\ hist.sleeps < MaxSleeps
    /\ WaitExitSleepStep

Next ==
    \/ Tick
    \/ PaneOutput
    \/ ProcessExit
    \/ Resize
    \/ ScreenEnter
    \/ ScreenQuery
    \/ ScreenCapture
    \/ WaitForEnter
    \/ WaitForQuery
    \/ WaitForDeath
    \/ WaitForCapture
    \/ WaitForEval
    \/ WaitForSleep
    \/ WaitExitEnter
    \/ WaitExitQuery
    \/ WaitExitCapture
    \/ WaitExitSleep

Spec == Init /\ [][Next]_vars

(***************************************************************************)
(* The wait calls run to their end: no bound on the number of sleeps.      *)
(* Every adapter call returns, so the step a call is at is eventually      *)
(* taken, and the clock advances.  The pane keeps the text it has when the *)
(* call starts (matching or not); the process may exit at any moment.      *)
(***************************************************************************)
CallStep ==
    \/ WaitForQuery
    \/ WaitForDeath
    \/ WaitForCapture
    \/ WaitForEval
    \/ WaitForSleepStep
    \/ WaitExitQuery
    \/ WaitExitCapture
    \/ WaitExitSleepStep

\* the calls made: no option, a timeout override, an invalid poll interval
FairOptionLists ==
    { <<>>, <<WithinTimeout(5)>>, <<WithWaitPollInterval(-5)>> }

FairNext ==
    \/ Tick
    \/ ProcessExit
    \/ \E m \in Matchers, wopts \in FairOptionLists :
          waitForInternal("WaitFor", m, wopts)
    \/ \E wopts \in FairOptionLists : WaitExit(wopts)
    \/ CallStep

FairSpec ==
    /\ Init
    /\ [][FairNext]_vars
    /\ WF_vars(CallStep)
    /\ WF_vars(Tick)

(***************************************************************************)
(* Open, run by two tests in parallel, the use of the returned Terminal,   *)
(* and the end of the test with its cleanups.                              *)
(***************************************************************************)
Path(o) == SocketPath(openers[o].name, openers[o].suffix)

\* t.Fatalf, t.Fatal, t.Skip: the test function stops
Stop(o) == openers' = [openers EXCEPT ![o].pc = "stopped",
                                     ![o].test = "failed"]

\* resolveTmuxPath and checkTmuxVersion
OpenResolve(o) ==
    /\ openers[o].pc = "resolve"
    /\ \E ok \in BOOLEAN :
         IF ok THEN openers' = [openers EXCEPT ![o].pc = "generate"]
         ELSE Stop(o)
    /\ UNCHANGED <<tmp, servers, waitVars, pureVars>>

\* generateSocketPath: the first random suffix
GenerateSuffix(o) ==
    /\ openers[o].pc = "generate"
    /\ \E x \in Suffixes, err \in BOOLEAN :
         IF err THEN Stop(o)
         ELSE openers' = [openers EXCEPT ![o].pc = "stat", ![o].suffix = x,
                                         ![o].i = 0]
    /\ UNCHANGED <<tmp, servers, waitVars, pureVars>>

\* variant: after the last round the path is returned unchecked
generateSocketPathLoop_ReturnLast(i, exists) ==
    IF i >= maxAttempts THEN "return"
    ELSE IF ~exists THEN "return"
    ELSE "regenerate"

\* the collision loop of generateSocketPath in round i: `exists` is the
\* outcome of os.Stat(path), read only while i < 10
generateSocketPathLoop(i, exists) ==
    IF i >= maxAttempts THEN "fail"
    ELSE IF ~exists THEN "return"
    ELSE "regenerate"

\* generateSocketPath: one round of the collision loop, or the failure
\* after maxAttempts rounds.  checks counts the os.Stat calls and missing
\* holds what the last of them found.
StatPath(o) ==
    /\ openers[o].pc = "stat"
    /\ LET exists == Path(o) \in tmp
           i == openers[o].i
           out == generateSocketPathLoop(i, exists)
           stat == i < maxAttempts
       IN CASE out = "fail" ->
                 openers' = [openers EXCEPT
                               ![o].pc = "stopped", ![o].test = "failed",
                               ![o].failure =
                                   "could not generate unique socket path"]
            [] out = "return" ->
                 openers' = [openers EXCEPT
                               ![o].pc = "config",
                               ![o].checks = IF stat THEN @ + 1 ELSE @,
                               ![o].missing = IF stat THEN ~exists ELSE @]
            [] out = "regenerate" ->
                 \E x \in Suffixes, err \in BOOLEAN :
                    IF err
                    THEN openers' = [openers EXCEPT
                               ![o].pc = "stopped", ![o].test = "failed",
                               ![o].checks = @ + 1, ![o].missing = FALSE,
                               ![o].failure =
                                   "failed to generate random bytes"]
                    ELSE openers' = [openers EXCEPT
                               ![o].suffix = x, ![o].i = @ + 1,
                               ![o].checks = @ + 1, ![o].missing = FALSE]
    /\ UNCHANGED <<tmp, servers, waitVars, pureVars>>

\* the file socketPath + ".conf", as the Open of test o wrote it
ConfigFile(p, o) == <<p[1], p[2], ".conf", o>>
ConfigFiles(p) == { ConfigFile(p, o) : o \in Openers }

\* writeConfig
WriteConfig(o) ==
    /\ openers[o].pc = "config"
    /\ \E err \in BOOLEAN :
         IF err THEN Stop(o) /\ UNCHANGED tmp
         ELSE /\ openers' = [openers EXCEPT ![o].pc = "start"]
              /\ tmp' = (tmp \ ConfigFiles(Path(o)))
                            \cup {ConfigFile(Path(o), o)}
    /\ UNCHANGED <<servers, waitVars, pureVars>>

\* tmux -S path new-session: starts the server of the socket, or adds a
\* session to the server that already listens on it
startSession(srv, o) ==
    [running |-> TRUE,
     sessions |-> (IF srv.running THEN srv.sessions ELSE {}) \cup {o}]

StartSession(o) ==
    /\ openers[o].pc = "start"
    /\ \E err \in BOOLEAN :
         IF err THEN Stop(o) /\ UNCHANGED <<tmp, servers>>
         ELSE /\ openers' = [openers EXCEPT ![o].pc = "ready"]
              /\ servers' = [servers EXCEPT
                               ![Path(o)] = startSession(@, o)]
              /\ tmp' = tmp \cup {Path(o)}
    /\ UNCHANGED <<waitVars, pureVars>>

\* runner.WaitForSession(5 * time.Second)
WaitForSession(o) ==
    /\ openers[o].pc = "ready"
    /\ \E err \in BOOLEAN :
         IF err \/ ~servers[Path(o)].running THEN Stop(o)
         ELSE openers' = [openers EXCEPT ![o].pc = "panes"]
    /\ UNCHANGED <<tmp, servers, waitVars, pureVars>>

\* variant: the cleanup is registered twice
registerCleanup_Twice(cleanups, runner) ==
    cleanups \o <<[killServer |-> runner], [killServer |-> runner]>>

\* t.Cleanup(func() { _ = killServer(runner); os.Remove(configPath) })
registerCleanup(cleanups, runner) ==
    Append(cleanups, [killServer |-> runner])

\* list-panes, the Terminal, t.Cleanup, return term
OpenReturn(o) ==
    /\ openers[o].pc = "panes"
    /\ \E err \in BOOLEAN :
         IF err \/ ~servers[Path(o)].running THEN Stop(o)
         ELSE \E s \in servers[Path(o)].sessions :
                LET runner == [socketPath |-> Path(o)]
                IN openers' =
                     [openers EXCEPT
                        ![o].pc = "opened",
                        ![o].term = [runner |-> runner,
                                     socketPath |-> Path(o),
                                     pane |-> s],
                        ![o].cleanups = registerCleanup(@, runner)]
    /\ UNCHANGED <<tmp, servers, waitVars, pureVars>>

\* any method of the Terminal (wait, input, capture, resize): it returns or
\* stops the test; none of them runs kill-server
TerminalOp(o) ==
    /\ openers[o].pc = "opened"
    /\ openers[o].test = "running"
    /\ \E fatal \in BOOLEAN :
         IF fatal THEN Stop(o) ELSE UNCHANGED openers
    /\ UNCHANGED <<tmp, servers, waitVars, pureVars>>

\* the test function returned or was stopped: the cleanups start
TestEnd(o) ==
    /\ openers[o].pc \in {"opened", "stopped"}
    /\ openers[o].test \in {"running", "failed"}
    /\ openers' = [openers EXCEPT ![o].pc = "cleanup", ![o].test = "ended"]
    /\ UNCHANGED <<tmp, servers, waitVars, pureVars>>

\* the last registered cleanup runs: kill-server on the runner's socket
\* and os.Remove of its config file
RunCleanup(o) ==
    /\ openers[o].pc = "cleanup"
    /\ openers[o].cleanups # <<>>
    /\ LET c == openers[o].cleanups[Len(openers[o].cleanups)]
           p == c.killServer.socketPath
       IN /\ openers' = [openers EXCEPT
                           ![o].cleanups = SubSeq(@, 1, Len(@) - 1),
                           ![o].kills = @ + 1]
          /\ servers' = [servers EXCEPT ![p].running = FALSE]
          /\ tmp' = tmp \ ({p} \cup ConfigFiles(p))
    /\ UNCHANGED <<waitVars, pureVars>>

OpenInit ==
    /\ WaitIdle
    /\ PureIdle
    /\ openers \in { [o \in Openers |-> NoOpener(f[o])] :
                       f \in [Openers -> TestNames] }
    /\ tmp \in SUBSET { SocketPath("TestA", x) : x \in Suffixes }
    /\ servers = [p \in SocketPaths |-> NoServer]

OpenNext ==
    \E o \in Openers :
        \/ OpenResolve(o)
        \/ GenerateSuffix(o)
        \/ StatPath(o)
        \/ WriteConfig(o)
        \/ StartSession(o)
        \/ WaitForSession(o)
        \/ OpenReturn(o)
        \/ TerminalOp(o)
        \/ TestEnd(o)
        \/ RunCleanup(o)

OpenSpec == OpenInit /\ [][OpenNext]_vars

(***************************************************************************)
(* The start of Open: resolveTmuxPath and checkTmuxVersion (tmux.go).      *)
(***************************************************************************)
\* WithTmuxPath, CRAWLER_TMUX, and exec.LookPath("tmux") ("" when it fails)
ConfiguredPaths == {"", "/opt/tmux"}
EnvPaths == {"", "/env/tmux"}
LookPaths == {"", "/usr/bin/tmux"}

\* replies of `tmux -V` after TrimPrefix "tmux ": the text, with the major
\* and minor number the text stands for; or an error
VersionReplies ==
    { [err |-> TRUE, text |-> <<>>, major |-> 0, minor |-> 0],
      [err |-> FALSE, text |-> <<"2", ".", "9">>, major |-> 2, minor |-> 9],
      [err |-> FALSE, text |-> <<"2", ".", "9", "a">>,
       major |-> 2, minor |-> 9],
      [err |-> FALSE, text |-> <<"3", ".", "0">>, major |-> 3, minor |-> 0],
      [err |-> FALSE, text |-> <<"3", ".", "3", "a">>,
       major |-> 3, minor |-> 3],
      [err |-> FALSE, text |-> <<"n", "-", "3", ".", "5">>,
       major |-> 3, minor |-> 5],
      [err |-> FALSE, text |-> <<"1", "0", ".", "1">>,
       major |-> 10, minor |-> 1] }

minTmuxVersion == <<"3", ".", "0">>

DigitValue ==
    [c \in {"0", "1", "2", "3", "4", "5", "6", "7", "8", "9"} |->
       CASE c = "0" -> 0 [] c = "1" -> 1 [] c = "2" -> 2 [] c = "3" -> 3
         [] c = "4" -> 4 [] c = "5" -> 5 [] c = "6" -> 6 [] c = "7" -> 7
         [] c = "8" -> 8 [] c = "9" -> 9]
IsDigit(c) == c \in DOMAIN DigitValue

\* the end of the longest run of digits that starts at i
RECURSIVE DigitsEnd(_, _)
DigitsEnd(v, i) ==
    IF i < Len(v) /\ IsDigit(v[i + 1]) THEN DigitsEnd(v, i + 1) ELSE i

\* strconv.Atoi of the digits v[i..j]
RECURSIVE Atoi(_, _, _)
Atoi(v, i, j) ==
    IF j < i THEN 0 ELSE Atoi(v, i, j - 1) * 10 + DigitValue[v[j]]

\* whether versionRe, (\d+)\.(\d+), matches at position i
MatchesAt(v, i) ==
    /\ IsDigit(v[i])
    /\ LET j == DigitsEnd(v, i)
       IN j + 2 <= Len(v) /\ v[j + 1] = "." /\ IsDigit(v[j + 2])

\* parseMajorMinor: the leftmost match of versionRe
parseMajorMinor(v) ==
    IF \E i \in 1..Len(v) : MatchesAt(v, i)
    THEN LET i == CHOOSE k \in 1..Len(v) :
                     MatchesAt(v, k) /\ \A h \in 1..(k - 1) : ~MatchesAt(v, h)
             j == DigitsEnd(v, i)
         IN [ok |-> TRUE, major |-> Atoi(v, i, j),
             minor |-> Atoi(v, j + 2, DigitsEnd(v, j + 2))]
    ELSE [ok |-> FALSE, major |-> 0, minor |-> 0]

versionAtLeast(version, minVersion) ==
    LET v == parseMajorMinor(version)
        m == parseMajorMinor(minVersion)
    IN IF ~v.ok \/ ~m.ok THEN FALSE
       ELSE IF v.major # m.major THEN v.major > m.major
       ELSE v.minor >= m.minor

\* variant: the environment variable wins over the option
resolveTmuxPath_EnvFirst(configured, env, lookPath) ==
    IF env # "" THEN [path |-> env, explicit |-> TRUE, skip |-> FALSE]
    ELSE IF configured # ""
    THEN [path |-> configured, explicit |-> TRUE, skip |-> FALSE]
    ELSE IF lookPath = ""
    THEN [path |-> "", explicit |-> FALSE, skip |-> TRUE]
    ELSE [path |-> lookPath, explicit |-> FALSE, skip |-> FALSE]

\* resolveTmuxPath: the path, whether it was configured, whether t.Skip ran
resolveTmuxPath(configured, env, lookPath) ==
    IF configured # ""
    THEN [path |-> configured, explicit |-> TRUE, skip |-> FALSE]
    ELSE IF env # "" THEN [path |-> env, explicit |-> TRUE, skip |-> FALSE]
    ELSE IF lookPath = ""
    THEN [path |-> "", explicit |-> FALSE, skip |-> TRUE]
    ELSE [path |-> lookPath, explicit |-> FALSE, skip |-> FALSE]

\* variant: an unusable tmux always skips the test
checkTmuxVersion_AlwaysSkip(reply, explicit) ==
    IF reply.err \/ ~versionAtLeast(reply.text, minTmuxVersion)
    THEN "skipped"
    ELSE "ok"

\* checkTmuxVersion: t.Fatalf or t.Skipf on a failed query, t.Fatal or
\* t.Skip on a version below the minimum
checkTmuxVersion(reply, explicit) ==
    IF reply.err THEN (IF explicit THEN "failed" ELSE "skipped")
    ELSE IF ~versionAtLeast(reply.text, minTmuxVersion)
    THEN (IF explicit THEN "failed" ELSE "skipped")
    ELSE "ok"

\* the other variables of the module stay as they are
BootFrame == UNCHANGED <<waitVars, openVars, match, snap, fn>>

ResolveTmuxPath ==
    /\ boot.pc = "resolve"
    /\ LET r == resolveTmuxPath(boot.configured, boot.env, boot.lookPath)
       IN boot' = [boot EXCEPT
                     !.pc = IF r.skip THEN "stopped" ELSE "version",
                     !.tmuxPath = r.path,
                     !.explicit = r.explicit,
                     !.outcome = IF r.skip THEN "skipped" ELSE "none"]
    /\ BootFrame

CheckTmuxVersion ==
    /\ boot.pc = "version"
    /\ LET out == checkTmuxVersion(boot.version, boot.explicit)
       IN boot' = [boot EXCEPT
                     !.pc = IF out = "ok" THEN "session" ELSE "stopped",
                     !.versionCalls = @ + 1,
                     !.outcome = IF out = "ok" THEN "none" ELSE out]
    /\ BootFrame

\* the rest of Open: socket path, config file, new-session
BootStartSession ==
    /\ boot.pc = "session"
    /\ \E err \in BOOLEAN :
         boot' = [boot EXCEPT
                    !.pc = IF err THEN "stopped" ELSE "opened",
                    !.outcome = IF err THEN "failed" ELSE "opened",
                    !.sessions = IF err THEN @ ELSE @ + 1]
    /\ BootFrame

BootInit ==
    /\ WaitIdle
    /\ OpenIdle
    /\ MatchIdle
    /\ SnapIdle
    /\ FnIdle
    /\ boot \in { [NoBoot EXCEPT !.configured = c, !.env = e,
                                  !.lookPath = l, !.version = v] :
                     c \in ConfiguredPaths, e \in EnvPaths,
                     l \in LookPaths, v \in VersionReplies }

BootNext ==
    \/ ResolveTmuxPath
    \/ CheckTmuxVersion
    \/ BootStartSession

BootSpec == BootInit /\ [][BootNext]_vars

(***************************************************************************)
(* Matchers applied to Screens (match.go).  A test builds a Matcher from   *)
(* the constructors and the wait engine, or the test itself, applies it to *)
(* a Screen.  The Screens are those newScreen builds from a capture,       *)
(* followed by the cursor assignment of captureScreenRaw.                  *)
(***************************************************************************)
\* the largest line number given to Line and LineContains
MaxLine == 2
\* the largest number of matchers given to All and Any
MaxMatchers == 2

MatchTexts ==
    { <<>>,
      <<"o", "k", "\n">>,
      <<"o", "k", " ", "\n", "n", "o", "\n">>,
      <<"n", "o", "\n", " ", "o", "k", "\n">> }
MatchCursorReplies ==
    { [err |-> TRUE, row |-> 0, col |-> 0],
      [err |-> FALSE, row |-> 1, col |-> 2],
      [err |-> FALSE, row |-> 0, col |-> 0] }
MatchScreens ==
    { withCursor(newScreen(raw, 4, 2, 1), reply) :
        raw \in MatchTexts, reply \in MatchCursorReplies }

LineNumbers == (-1)..MaxLine
LeafMatchers ==
    { Text(<<"o", "k">>), Cursor(1, 2), Cursor(0, 1), Cursor(-1, -1) }
    \cup { Line(n, <<"o", "k">>) : n \in LineNumbers }
    \cup { LineContains(n, <<"o">>) : n \in LineNumbers }
SubMatchers ==
    { Text(<<"o", "k">>), Line(0, <<"o", "k">>), Line(1, <<"o", "k">>),
      Cursor(1, 2) }
MatcherLists ==
    UNION { [1..k -> SubMatchers] : k \in 0..MaxMatchers }
TestMatchers ==
    LeafMatchers
    \cup { Not(m) : m \in LeafMatchers }
    \cup { Not(Not(m)) : m \in LeafMatchers }
    \cup { All(ms) : ms \in MatcherLists }
    \cup { AnyOf(ms) : ms \in MatcherLists }
    \cup { Not(All(<<>>)), Not(AnyOf(<<>>)), All(<<AnyOf(<<>>)>>),
           AnyOf(<<All(<<>>)>>) }

MatchFrame == UNCHANGED <<waitVars, openVars, boot, snap, fn>>

\* the call m(scr)
ApplyMatcher ==
    /\ match.pc = "ready"
    /\ match' = [match EXCEPT !.pc = "done",
                               !.r = MatcherEval(match.m, match.scr)]
    /\ MatchFrame

MatchInit ==
    /\ WaitIdle
    /\ OpenIdle
    /\ BootIdle
    /\ SnapIdle
    /\ FnIdle
    /\ match \in { [NoMatch EXCEPT !.pc = "ready", !.m = m, !.scr = scr] :
                      m \in TestMatchers, scr \in MatchScreens }

MatchNext == ApplyMatcher

MatchSpec == MatchInit /\ [][MatchNext]_vars

(***************************************************************************)
(* Snapshots (snapshot.go).  Screen.MatchSnapshot normalizes the text of   *)
(* the Screen and, depending on CRAWLER_UPDATE, writes it to the golden    *)
(* file or compares it with the bytes of the golden file.                  *)
(***************************************************************************)
\* the longest Screen text
MaxText == 4

SnapChars == {"a", " ", "\n"}
SnapTexts == UNION { [1..k -> SnapChars] : k \in 0..MaxText }
\* values of the environment variable CRAWLER_UPDATE; "" is unset
UpdateValues == {"", "0", "1", "true", "yes", "TRUE"}
\* the golden file before the call
GoldenFiles ==
    { NoFile, File(<<"a", "\n">>), File(<<"\n">>), File(<<"a", " ", "\n">>) }
\* the file system call that fails, if one does
IOFailures == {"ok", "mkdir", "write", "read"}

\* strings.Join(lines, "\n")
RECURSIVE JoinNL(_)
JoinNL(lines) ==
    IF lines = <<>> THEN <<>>
    ELSE IF Len(lines) = 1 THEN lines[1]
    ELSE lines[1] \o <<"\n">> \o JoinNL(Tail(lines))

\* the loop that removes the trailing blank lines
RECURSIVE RemoveTrailingBlank(_)
RemoveTrailingBlank(lines) ==
    IF Len(lines) > 0 /\ lines[Len(lines)] = <<>>
    THEN RemoveTrailingBlank(SubSeq(lines, 1, Len(lines) - 1))
    ELSE lines

\* variant: the trailing blank lines stay
normalizeForSnapshot_KeepBlank(raw) ==
    LET lines == SplitNL(raw)
        trimmed == [i \in 1..Len(lines) |-> TrimRightSpace(lines[i])]
    IN JoinNL(trimmed) \o <<"\n">>

normalizeForSnapshot(raw) ==
    LET lines == SplitNL(raw)
        trimmed == [i \in 1..Len(lines) |-> TrimRightSpace(lines[i])]
    IN JoinNL(RemoveTrailingBlank(trimmed)) \o <<"\n">>

\* variant: every non-empty value asks for an update
shouldUpdate_NonEmpty(v) == v # ""

shouldUpdate(v) == v = "1" \/ v = "true" \/ v = "yes"

SnapFrame == UNCHANGED <<waitVars, openVars, boot, match, fn>>

\* the call normalizeForSnapshot(s.String()) on its own
NormalizeForSnapshot ==
    /\ snap.pc = "ready"
    /\ snap' = [snap EXCEPT !.pc = "normalized",
                             !.content = normalizeForSnapshot(snap.text)]
    /\ SnapFrame

\* Screen.MatchSnapshot with CRAWLER_UPDATE set to a truthy value.  A
\* WriteFile that fails leaves the file as it was or truncated.
MatchSnapshotUpdate ==
    /\ snap.pc = "ready"
    /\ shouldUpdate(snap.update)
    /\ LET content == normalizeForSnapshot(snap.text)
       IN \/ /\ snap.io = "mkdir"
             /\ snap' = [snap EXCEPT !.pc = "done", !.content = content,
                             !.outcome = "failed to create directory"]
          \/ /\ snap.io = "write"
             /\ \E f \in {snap.file, File(<<>>)} :
                    snap' = [snap EXCEPT !.pc = "done", !.content = content,
                                !.file = f,
                                !.outcome = "failed to write golden file"]
          \/ /\ snap.io \notin {"mkdir", "write"}
             /\ snap' = [snap EXCEPT !.pc = "done", !.content = content,
                             !.file = File(content),
                             !.outcome = "returned"]
    /\ SnapFrame

\* Screen.MatchSnapshot in every other case: read and compare
MatchSnapshotCompare ==
    /\ snap.pc = "ready"
    /\ ~shouldUpdate(snap.update)
    /\ LET content == normalizeForSnapshot(snap.text)
           outcome ==
               IF ~snap.file.exists THEN "golden file not found"
               ELSE IF snap.io = "read" THEN "failed to read golden file"
               ELSE IF snap.file.bytes # content THEN "mismatch"
               ELSE "returned"
       IN snap' = [snap EXCEPT !.pc = "done", !.content = content,
                       !.outcome = outcome]
    /\ SnapFrame

SnapInit ==
    /\ WaitIdle
    /\ OpenIdle
    /\ BootIdle
    /\ MatchIdle
    /\ FnIdle
    /\ snap \in { [NoSnap EXCEPT !.pc = "ready", !.text = x, !.update = v,
                                  !.io = io, !.before = f, !.file = f] :
                     x \in SnapTexts, v \in UpdateValues, io \in IOFailures,
                     f \in GoldenFiles }

SnapNext ==
    \/ NormalizeForSnapshot
    \/ MatchSnapshotUpdate
    \/ MatchSnapshotCompare

SnapSpec == SnapInit /\ [][SnapNext]_vars

(***************************************************************************)
(* The functions that build names and Screens: sanitizeName (tmux.go),     *)
(* newScreen (screen.go) and Terminal.Scrollback.  A name is a sequence of *)
(* runes, given by their code points.                                      *)
(***************************************************************************)
\* the longest varying part of a name
MaxName == 2
\* if len(s) > 60 { s = s[:60] }
maxSanitizedLen == 60

\* runes at the ends of the ranges of sanitizeName, the two single runes it
\* keeps, and '_', '/', ' ' and a rune outside ASCII
NameRunes ==
    {64, 65, 90, 91, 96, 97, 122, 123, 47, 48, 57, 58, 45, 46, 95, 32, 233}
NameHeads == UNION { [1..k -> NameRunes] : k \in 0..MaxName }
\* names end in a run of one rune, up to and beyond the truncation length
PadRunes == {97, 47}
PadLengths == {0} \cup ((maxSanitizedLen - 2)..(maxSanitizedLen + 1))
Names ==
    { head \o [i \in 1..k |-> c] :
        head \in NameHeads, c \in PadRunes, k \in PadLengths }

\* variant: the result is not truncated
sanitizeName_NoTruncate(name) ==
    [i \in 1..Len(name) |->
        LET r == name[i]
        IN IF \/ r >= 65 /\ r <= 90
              \/ r >= 97 /\ r <= 122
              \/ r >= 48 /\ r <= 57
              \/ r = 46
              \/ r = 45
           THEN r
           ELSE 95]

\* sanitizeName: 'A'..'Z' is 65..90, 'a'..'z' 97..122, '0'..'9' 48..57,
\* '.' 46, '-' 45 and '_' 95
sanitizeName(name) ==
    LET s == [i \in 1..Len(name) |->
                 LET r == name[i]
                 IN IF \/ r >= 65 /\ r <= 90
                       \/ r >= 97 /\ r <= 122
                       \/ r >= 48 /\ r <= 57
                       \/ r = 46
                       \/ r = 45
                    THEN r
                    ELSE 95]
    IN IF Len(s) > maxSanitizedLen THEN SubSeq(s, 1, maxSanitizedLen) ELSE s

\* the longest raw capture
MaxRaw == 4
RawChars == {"a", "\r", "\n"}
RawTexts == UNION { [1..k -> RawChars] : k \in 0..MaxRaw }

FnFrame == UNCHANGED <<waitVars, openVars, boot, match, snap>>

\* the call newScreen(raw, width, height) on a capture of the pane
NewScreen ==
    /\ fn.pc = "ready"
    /\ fn.op = "newScreen"
    /\ fn' = [fn EXCEPT !.pc = "done",
                         !.scr = newScreen(fn.raw, opts.width, opts.height, 1),
                         !.outcome = "returned"]
    /\ FnFrame

\* the call sanitizeName(name)
SanitizeName ==
    /\ fn.pc = "ready"
    /\ fn.op = "sanitizeName"
    /\ fn' = [fn EXCEPT !.pc = "done", !.sanitized = sanitizeName(fn.name),
                         !.outcome = "returned"]
    /\ FnFrame

\* the longest of the lines, in bytes: the loop over lines in Scrollback
RECURSIVE maxWidth(_)
maxWidth(lines) ==
    IF lines = <<>> THEN 0
    ELSE Max(Len(Head(lines)), maxWidth(Tail(lines)))

\* Scrollback after a successful capture: the lines are split from the raw
\* output, and newScreen is given the raw output
scrollbackScreen(raw, ptr) ==
    LET lines == SplitNL(TrimSuffixNL(raw))
    IN newScreen(raw, maxWidth(lines), Len(lines), ptr)

\* the replies of getPaneState to Scrollback's requireAlive
ScrollbackStates ==
    { [err |-> TRUE, dead |-> FALSE, exitStatus |-> 0],
      [err |-> FALSE, dead |-> FALSE, exitStatus |-> 0],
      [err |-> FALSE, dead |-> TRUE, exitStatus |-> 1] }

\* Terminal.Scrollback: requireAlive, capturePaneScrollback, newScreen
Scrollback ==
    /\ fn.pc = "ready"
    /\ fn.op = "Scrollback"
    /\ fn' = IF requireAlive(fn.st) = "ProcessDied"
             THEN [fn EXCEPT !.pc = "done", !.outcome = "ProcessDied"]
             ELSE IF fn.captureErr
             THEN [fn EXCEPT !.pc = "done", !.outcome = "AdapterFailure"]
             ELSE [fn EXCEPT !.pc = "done", !.outcome = "returned",
                             !.scr = scrollbackScreen(fn.raw, 1)]
    /\ FnFrame

FnInit ==
    /\ WaitIdle
    /\ OpenIdle
    /\ BootIdle
    /\ MatchIdle
    /\ SnapIdle
    /\ fn \in { [NoFn EXCEPT !.pc = "ready", !.op = "sanitizeName",
                              !.name = n] : n \in Names }
              \cup { [NoFn EXCEPT !.pc = "ready", !.op = "newScreen",
                                  !.raw = x] : x \in RawTexts }
              \cup { [NoFn EXCEPT !.pc = "ready", !.op = "Scrollback",
                                  !.raw = x, !.st = st, !.captureErr = e] :
                         x \in RawTexts, st \in ScrollbackStates,
                         e \in BOOLEAN }

FnNext ==
    \/ SanitizeName
    \/ NewScreen
    \/ Scrollback

FnSpec == FnInit /\ [][FnNext]_vars

TypeOK ==
    /\ pc \in {"idle", "query", "death", "capture", "eval", "sleep", "done"}
    /\ test \in {"running", "failed"}
    /\ call.kind \in WaitKinds \cup {"Screen", "Resize", "none"}
    /\ result.kind \in Outcomes \cup {"none"}
    /\ now \in 0..MaxClock
    /\ Len(recentScreens) <= failureCaptureHistory

(***************************************************************************)
(* Properties of the wait engine.                                          *)
(***************************************************************************)
InWaitFor == call.kind \in {"WaitFor", "WaitForScreen"}
QueryReportedDead == ~state.err /\ state.dead
LastMatch == MatcherEval(call.m, lastScreen)

\* C1: a WaitFor/WaitForScreen call that ended in TimedOut has completed at
\* least one full iteration (liveness query, screen capture, matcher
\* evaluation), whatever the effective timeout is.
C1_IterationBeforeTimedOut ==
    (InWaitFor /\ result.kind = "TimedOut") =>
        /\ hist.queries >= 1
        /\ hist.screens >= 1
        /\ hist.evals >= 1
        /\ lastScreen.ptr # 0
        /\ lastDesc = LastMatch.desc

\* a timeout on a zero or negative effective timeout, below the poll
\* interval, after a single iteration
C1_Witness ==
    /\ InWaitFor
    /\ result.kind = "TimedOut"
    /\ timeout <= 0
    /\ timeout < pollInterval
    /\ hist.evals = 1
    /\ hist.sleeps = 0

\* C2: once the liveness query of an iteration reports the pane dead, the
\* call goes to the death report and ends in ProcessDied, also when the
\* matcher is true on the final frame; that evaluation only provides the
\* reported description.
C2_DeadIsProcessDied ==
    (InWaitFor /\ QueryReportedDead) =>
        /\ pc \in {"death", "done"}
        /\ pc = "done" =>
              /\ result.kind = "ProcessDied"
              /\ test = "failed"
              /\ result.screen = NilScreen
              /\ result.status = state.exitStatus
              /\ lastScreen.ptr # 0 => result.desc = LastMatch.desc

\* the process died while the pane shows the awaited text
C2_Witness ==
    /\ InWaitFor
    /\ pc = "done"
    /\ QueryReportedDead
    /\ result.kind = "ProcessDied"
    /\ lastScreen.ptr # 0
    /\ LastMatch.ok

\* C3: when the liveness query of an iteration fails, the call has ended
\* in a hard failure: nothing is captured or evaluated afterwards.
C3_QueryErrorIsFatal ==
    (InWaitFor /\ state.err) =>
        /\ pc = "done"
        /\ result.kind = "AdapterFailure"
        /\ test = "failed"

\* C4: the capture history holds at most 3 Screens, none absent, oldest
\* first, and they are the most recent Screens captured by this call.
C4_HistoryBounded ==
    /\ Len(recentScreens) <= 3
    /\ call.kind \in WaitKinds =>
          /\ Len(recentScreens) = Min(hist.screens, 3)
          /\ \A i \in 1..Len(recentScreens) :
                recentScreens[i].ptr = hist.screens - Len(recentScreens) + i

\* a fourth Screen was appended and the first one evicted
C4_Witness ==
    /\ hist.screens = 4
    /\ Len(recentScreens) = 3
    /\ recentScreens[1].ptr = 2
    /\ recentScreens[3].ptr = 4

\* C5: the deadline is the start time plus the effective timeout for the
\* whole call; a timeout is reported only after a matcher evaluation that
\* returned false, with the clock past the deadline; an iteration whose
\* matcher evaluation returned true ends in Succeeded wherever the clock is.
C5_DeadlineAfterEval ==
    (InWaitFor /\ pc # "idle" /\ result.kind # "InvalidConfig") =>
        /\ deadline = hist.start + timeout
        /\ result.kind = "TimedOut" =>
              /\ hist.evals >= 1
              /\ ~LastMatch.ok
              /\ After(now, deadline)
        /\ (pc = "done" /\ ~QueryReportedDead /\ lastScreen.ptr # 0
              /\ LastMatch.ok) => result.kind = "Succeeded"

\* a match found with the clock past the deadline
C5_Witness ==
    /\ InWaitFor
    /\ result.kind = "Succeeded"
    /\ After(now, deadline)
    /\ hist.start > 0

\* C6: when the first Screen of a call was captured from a pane not
\* reported dead and the matcher is true on it, the call has not slept, has
\* captured once, and ends by returning to the caller.
C6_FirstMatchNoSleep ==
    (/\ InWaitFor
     /\ ~QueryReportedDead
     /\ recentScreens # <<>>
     /\ recentScreens[1].ptr = 1
     /\ MatcherEval(call.m, recentScreens[1]).ok) =>
        /\ hist.sleeps = 0
        /\ hist.captures = 1
        /\ pc \in {"eval", "done"}
        /\ pc = "done" => (result.kind = "Succeeded" /\ test = "running")

\* a call that returned after its first capture
C6_Witness ==
    /\ InWaitFor
    /\ result.kind = "Succeeded"
    /\ hist.captures = 1
    /\ hist.sleeps = 0
    /\ ~state.err /\ ~state.dead

\* C7: WaitForScreen returns only on success, and then returns the Screen
\* of its final iteration, on which the matcher is true; every other end
\* of the call stops the test and returns nothing.
C7_ReturnsMatchingScreen ==
    (call.kind = "WaitForScreen" /\ pc = "done") =>
        IF result.kind = "Succeeded"
        THEN /\ test = "running"
             /\ result.screen.ptr # 0
             /\ result.screen = lastScreen
             /\ result.screen.ptr = hist.screens
             /\ result.screen = recentScreens[Len(recentScreens)]
             /\ MatcherEval(call.m, result.screen).ok
        ELSE /\ test = "failed"
             /\ result.kind \in Failures
             /\ result.screen = NilScreen

\* a WaitForScreen call that returned the Screen of its third iteration
C7_Witness ==
    /\ call.kind = "WaitForScreen"
    /\ result.kind = "Succeeded"
    /\ hist.screens = 3
    /\ result.screen.ptr = 3

\* C8: a wait call given a negative per-call timeout or poll interval has
\* ended in InvalidConfig, with the test stopped, without any liveness
\* query, capture or sleep.
C8_NegativeIsInvalidConfig ==
    (pc # "idle" /\ (call.wo.timeout < 0 \/ call.wo.pollInterval < 0)) =>
        /\ pc = "done"
        /\ result.kind = "InvalidConfig"
        /\ test = "failed"
        /\ hist.queries = 0
        /\ hist.captures = 0
        /\ hist.sleeps = 0
        /\ now = hist.start

\* a WaitFor call rejected for its negative poll interval alone
C8_Witness ==
    /\ InWaitFor
    /\ call.wo.timeout >= 0
    /\ call.wo.pollInterval < 0
    /\ result.kind = "InvalidConfig"

\* C9: the effective timeout of a wait call is the per-call override when
\* that is positive and the session default otherwise; an override of zero
\* selects the session default.
C9_EffectiveTimeout ==
    (call.kind \in WaitKinds /\ result.kind # "InvalidConfig") =>
        /\ call.wo.timeout > 0 => timeout = call.wo.timeout
        /\ call.wo.timeout = 0 => timeout = opts.timeout
        /\ deadline = hist.start + timeout

\* a call with an override of zero under a non-zero session default
C9_Witness ==
    /\ InWaitFor
    /\ pc = "query"
    /\ call.wo.timeout = 0
    /\ opts.timeout # 0
    /\ timeout = opts.timeout

C11_SleepAtLeastFloor ==
    (call.kind \in WaitKinds /\ pc = "sleep") => pollInterval >= 10

\* C12: WaitExit returns exactly when its liveness query reports the pane
\* dead, with the exit status of that query; a pane dead at the first query
\* costs no capture and no sleep; WaitExit never reports ProcessDied.
C12_WaitExitReturnsOnDeath ==
    (call.kind = "WaitExit" /\ pc # "idle") =>
        /\ result.kind # "ProcessDied"
        /\ (result.kind = "Exited") <=> QueryReportedDead
        /\ result.kind = "Exited" =>
              /\ pc = "done"
              /\ test = "running"
              /\ pane.dead
              /\ result.status = state.exitStatus
              /\ result.status = pane.exitStatus
        /\ (QueryReportedDead /\ hist.queries = 1) =>
              (hist.captures = 0 /\ hist.sleeps = 0)

\* WaitExit returned status 1 after polling a live pane first
C12_Witness ==
    /\ call.kind = "WaitExit"
    /\ result.kind = "Exited"
    /\ result.status = 1
    /\ hist.queries = 2
    /\ hist.sleeps = 1

\* C13: a WaitExit call ends in TimedOut only after a liveness query that
\* found the pane alive, with the clock past the deadline, and reports the
\* captures of the call (at most 3, oldest first); a failed capture is
\* skipped and never ends the call.
C13_WaitExitTimedOut ==
    call.kind = "WaitExit" =>
        /\ result.kind = "TimedOut" =>
              /\ test = "failed"
              /\ hist.queries >= 1
              /\ ~state.err /\ ~state.dead
              /\ After(now, deadline)
              /\ result.history = recentScreens
              /\ Len(result.history) = Min(hist.screens, 3)
              /\ \A i \in 1..Len(result.history) :
                    result.history[i].ptr
                        = hist.screens - Len(result.history) + i
        /\ result.kind = "AdapterFailure" => state.err

\* a timeout whose history lacks a capture that failed on the way
C13_Witness ==
    /\ call.kind = "WaitExit"
    /\ result.kind = "TimedOut"
    /\ hist.captures = 3
    /\ hist.screens = 2
    /\ Len(result.history) = 2

\* C14: every TimedOut and ProcessDied failure of WaitFor/WaitForScreen
\* carries the description of the call's last matcher evaluation (the one
\* on the newest captured screen) and the bounded history oldest to newest;
\* a ProcessDied failure also carries the exit status of the liveness query.
C14_FailureReport ==
    (InWaitFor /\ result.kind \in {"TimedOut", "ProcessDied"}) =>
        LET n == Len(result.history)
        IN /\ result.history = recentScreens
           /\ n = Min(hist.screens, failureCaptureHistory)
           /\ \A i \in 1..n : result.history[i].ptr = hist.screens - n + i
           /\ hist.evals = hist.screens
           /\ n >= 1 =>
                 result.desc = MatcherEval(call.m, result.history[n]).desc
           /\ result.desc = lastDesc
           /\ result.kind = "ProcessDied" =>
                 /\ QueryReportedDead
                 /\ result.status = state.exitStatus
                 /\ result.status = pane.exitStatus

\* a death report whose description differs from the one of the iteration
\* before it: the cursor query failed then and succeeded on the final frame
C14_Witness ==
    /\ InWaitFor
    /\ call.m.op = "Cursor"
    /\ result.kind = "ProcessDied"
    /\ result.status = 1
    /\ Len(result.history) = 2
    /\ result.desc.pattern = "cursor at"
    /\ MatcherEval(call.m, result.history[1]).desc.pattern
           = "cursor at (actual)"

\* C16: in WaitFor/WaitForScreen a failed capture of a pane that was not
\* reported dead ends the call at once in a hard failure: no matcher
\* evaluation, no history entry and no second capture follow it.
C16_CaptureFailureIsFatal ==
    (InWaitFor /\ ~QueryReportedDead /\ hist.captures > hist.screens) =>
        /\ pc = "done"
        /\ test = "failed"
        /\ result.kind = "AdapterFailure"
        /\ result.reason = "capture failed"
        /\ hist.captures = hist.screens + 1
        /\ hist.captures = hist.queries
        /\ hist.evals = hist.screens
        /\ hist.sleeps = hist.screens
        /\ Len(recentScreens) = Min(hist.screens, failureCaptureHistory)
        /\ lastScreen.ptr = hist.screens

\* the capture of the second iteration failed
C16_Witness ==
    /\ InWaitFor
    /\ result.kind = "AdapterFailure"
    /\ ~QueryReportedDead
    /\ hist.screens = 1
    /\ hist.captures = 2
    /\ hist.evals = 1

\* the Screens held by the call: the locals of the wait loop, the returned
\* value and the captures given to the failure report
HeldScreens ==
    {lastScreen, result.screen}
        \cup {recentScreens[i] : i \in 1..Len(recentScreens)}
        \cup {result.history[i] : i \in 1..Len(result.history)}

CursorUnknown(scr) == scr.cursorRow = -1 /\ scr.cursorCol = -1
CursorReported(scr) ==
    \E r \in CursorReplies :
        ~r.err /\ scr.cursorRow = r.row /\ scr.cursorCol = r.col

\* C17: in every Screen produced by Screen(), a wait or a failure report,
\* the cursor row and column are both those of one successful cursor query
\* or both -1; a failed cursor query never ends a call: every hard failure
\* of a capture comes from the capture or the liveness query.
C17_CursorBothOrNeither ==
    /\ \A scr \in HeldScreens :
          scr.ptr # 0 => (CursorUnknown(scr) \/ CursorReported(scr))
    /\ NilScreen.cursorRow = -1 /\ NilScreen.cursorCol = -1
    /\ (call.kind \in {"Screen", "WaitFor", "WaitForScreen"}
          /\ result.kind = "AdapterFailure") =>
          (hist.captures = hist.screens + 1 /\ result.reason = "capture failed")
    /\ result.kind \in {"Captured", "Succeeded"} =>
          hist.captures = hist.screens

\* WaitForScreen returned a Screen with a reported cursor one iteration
\* after a capture whose cursor query failed
C17_Witness ==
    /\ call.kind = "WaitForScreen"
    /\ result.kind = "Succeeded"
    /\ CursorReported(result.screen)
    /\ Len(recentScreens) = 2
    /\ CursorUnknown(recentScreens[1])

\* the declared size is the one of the last Resize that returned, and every
\* Screen held by the call reports the declared size
DeclaredSize ==
    /\ lastResize.ok =>
          (opts.width = lastResize.width /\ opts.height = lastResize.height)
    /\ \A scr \in HeldScreens :
          scr.ptr # 0 =>
              (scr.width = opts.width /\ scr.height = opts.height)

\* a step that changes the options is a Resize that returned, and changes
\* the declared width and height only
OnlyResizeChangesSize ==
    opts' # opts =>
        /\ lastResize'.ok
        /\ opts' = [opts EXCEPT !.width = lastResize'.width,
                                !.height = lastResize'.height]
        /\ UNCHANGED <<pane, test, pc, call, result, hist>>

\* C20: no operation changes the Terminal's runner, socket path or pane
\* identifier; a Resize(w, h) that returned changed only the declared width
\* and height, and every Screen captured after it by Screen() or a wait has
\* Size() = (w, h).
C20_ResizeFrame ==
    /\ [](term = OpenedTerminal /\ DeclaredSize)
    /\ [][term' = term /\ OnlyResizeChangesSize]_vars

\* WaitForScreen returned a 6x3 Screen after Resize(6, 3) on a 4x2 terminal
C20_Witness ==
    /\ lastResize.ok
    /\ call.kind = "WaitForScreen"
    /\ result.kind = "Succeeded"
    /\ result.screen.width = 6
    /\ result.screen.height = 3
    /\ term = OpenedTerminal

\* C15: with adapter calls that return and a clock that advances, every
\* WaitFor/WaitForScreen/WaitExit call reaches a terminal state, which is
\* one of the outcomes and is never left or changed; the only step that
\* goes back to the start of an iteration is the sleep.
C15_CallTerminates ==
    /\ (call.kind \in WaitKinds) ~> (pc = "done")
    /\ [](pc = "done" => result.kind \in Outcomes)
    /\ [][pc = "done" => (pc' = "done" /\ result' = result /\ test' = test)]_vars
    /\ [][(pc \notin {"idle", "query"} /\ pc' = "query") => pc = "sleep"]_vars

\* a call that ended in TimedOut after more sleeps than the bounded calls
\* make: its zero poll interval leaves the clock to the ticks
C15_Witness ==
    /\ call.kind \in WaitKinds
    /\ pc = "done"
    /\ result.kind = "TimedOut"
    /\ pollInterval = 0
    /\ hist.sleeps > MaxSleeps

Returned(o) == openers[o].term # NoTerminal

\* C18: an Open that returned a Terminal registered exactly one cleanup,
\* which runs kill-server on that Terminal's socket once, when the test has
\* ended; until a cleanup has run on that socket the server stays up,
\* whatever the Terminal's methods did.
C18_OneCleanupOneKill ==
    \A o \in Openers :
        LET r == openers[o]
        IN /\ Len(r.cleanups) + r.kills = (IF Returned(o) THEN 1 ELSE 0)
           /\ \A k \in 1..Len(r.cleanups) :
                 r.cleanups[k].killServer = r.term.runner
           /\ r.kills >= 1 => r.test = "ended"
           /\ (r.pc = "cleanup" /\ r.cleanups = <<>> /\ Returned(o)) =>
                 r.kills = 1
           /\ (/\ Returned(o)
               /\ \A q \in Openers :
                     (Returned(q)
                        /\ openers[q].term.socketPath = r.term.socketPath)
                         => openers[q].kills = 0) =>
                 servers[r.term.socketPath].running

\* one test has ended and its cleanup has killed its server; the other test
\* still uses its own server
C18_Witness ==
    /\ Returned("t1") /\ Returned("t2")
    /\ openers["t1"].term.socketPath # openers["t2"].term.socketPath
    /\ openers["t1"].test = "ended"
    /\ openers["t1"].kills = 1
    /\ ~servers[openers["t1"].term.socketPath].running
    /\ openers["t2"].pc = "opened"
    /\ servers[openers["t2"].term.socketPath].running

\* C19: two Terminals that are open at the same time are never bound to
\* the same socket path, and no server holds the sessions of two Opens.
C19_DistinctSockets ==
    /\ \A o, q \in Openers :
          (o # q /\ openers[o].pc = "opened" /\ openers[q].pc = "opened") =>
              openers[o].term.socketPath # openers[q].term.socketPath
    /\ \A p \in SocketPaths : Cardinality(servers[p].sessions) <= 1

\* C21: a Screen() call made when the driven process has already exited
\* stops the test with the process-exited failure and the exit status, and
\* issues no capture-pane command.
C21_DeadPaneStopsOperation ==
    (call.kind = "Screen" /\ hist.deadAtEntry) =>
        /\ hist.captures = 0
        /\ pc \in {"query", "done"}
        /\ pc = "done" =>
              /\ result.kind = "ProcessDied"
              /\ result.status = pane.exitStatus
              /\ test = "failed"

\* C22: when the tmux binary is missing, its version query fails or its
\* version is below 3.0, Open has stopped the test, by a failure if the path
\* was configured (option or environment) and by a skip if it was found on
\* PATH, and no session was started.
C22_UnusableTmuxStopsOpen ==
    LET configured == boot.configured # "" \/ boot.env # ""
        missing == ~configured /\ boot.lookPath = ""
        unusable == missing \/ boot.version.err \/ boot.version.major < 3
    IN (boot.pc \notin {"resolve", "version"} /\ unusable) =>
           /\ boot.pc = "stopped"
           /\ boot.outcome = (IF configured THEN "failed" ELSE "skipped")
           /\ boot.sessions = 0

\* a tmux 2.9a found on PATH skipped the test after one version query
C22_Witness ==
    /\ boot.pc = "stopped"
    /\ boot.outcome = "skipped"
    /\ boot.lookPath = "/usr/bin/tmux"
    /\ boot.tmuxPath = "/usr/bin/tmux"
    /\ boot.version.text = <<"2", ".", "9", "a">>
    /\ boot.versionCalls = 1

\* C23: the tmux binary is the WithTmuxPath value when non-empty, else the
\* CRAWLER_TMUX value when non-empty, else the PATH lookup; the first two
\* count as explicitly configured, the third does not.
C23_TmuxPathPrecedence ==
    boot.pc # "resolve" =>
        /\ boot.tmuxPath =
              (IF boot.configured # "" THEN boot.configured
               ELSE IF boot.env # "" THEN boot.env
               ELSE boot.lookPath)
        /\ boot.explicit = (boot.configured # "" \/ boot.env # "")

\* Open went on with the option's path although the environment variable
\* and a tmux on PATH were there too
C23_Witness ==
    /\ boot.pc = "opened"
    /\ boot.configured = "/opt/tmux"
    /\ boot.env = "/env/tmux"
    /\ boot.lookPath = "/usr/bin/tmux"
    /\ boot.tmuxPath = "/opt/tmux"
    /\ boot.explicit

\* the matcher of the application at hand was built by constructor op
Applied(op) == match.pc = "done" /\ match.m.op = op

\* C24: on every Screen, All() with no matchers returns true and Any()
\* with no matchers returns false.
C24_EmptyAllAny ==
    /\ (Applied("All") /\ match.m.matchers = <<>>) =>
           (match.r.ok /\ ~match.r.fault)
    /\ (Applied("Any") /\ match.m.matchers = <<>>) =>
           (~match.r.ok /\ ~match.r.fault)

C24_Witness ==
    /\ Applied("Any")
    /\ match.m.matchers = <<>>
    /\ ~match.r.ok
    /\ match.r.desc = [pattern |-> "any of", arg |-> <<>>]
    /\ match.scr.raw # <<>>

\* C25: for every matcher m and Screen s, Not(m) is true on s exactly when
\* m is false on s, and Not(Not(m)) has the boolean result of m.
C25_NotInverts ==
    /\ Applied("Not") =>
           /\ ~match.r.fault
           /\ match.r.ok = ~MatcherEval(match.m.m, match.scr).ok
    /\ (Applied("Not") /\ match.m.m.op = "Not") =>
           match.r.ok = MatcherEval(match.m.m.m, match.scr).ok

C25_Witness ==
    /\ Applied("Not")
    /\ match.m.m.op = "Not"
    /\ match.m.m.m.op = "Line"
    /\ match.r.ok
    /\ MatcherEval(match.m.m.m, match.scr).ok

\* the line number of the applied Line or LineContains is outside the Screen
LineOutOfRange == match.m.n < 0 \/ match.m.n >= Len(match.scr.lines)

\* C26: on every Screen and for every line number, negative ones and those
\* at or beyond the line count included, Line and LineContains return
\* without a fault and with their normal description; for a line number
\* out of range they return false.
C26_LineOutOfRange ==
    /\ Applied("Line") =>
           /\ ~match.r.fault
           /\ match.r.desc = [pattern |-> "line to equal", n |-> match.m.n,
                              arg |-> match.m.s]
           /\ LineOutOfRange => ~match.r.ok
    /\ Applied("LineContains") =>
           /\ ~match.r.fault
           /\ match.r.desc = [pattern |-> "line to contain", n |-> match.m.n,
                              arg |-> match.m.s]
           /\ LineOutOfRange => ~match.r.ok

C26_Witness ==
    /\ Applied("Line")
    /\ match.m.n = -1
    /\ match.scr.lines # <<<<>>>>
    /\ ~match.r.ok
    /\ ~match.r.fault

\* the result of the i-th sub-matcher of the applied All or Any on its own
SubResult(i) == MatcherEval(match.m.matchers[i], match.scr)

\* the positions at which the sub-matchers return `stopAt`, and the position
\* of the last sub-matcher a loop that stops at the first of them calls
StopPositions(stopAt) ==
    { i \in 1..Len(match.m.matchers) : SubResult(i).ok = stopAt }
LastCalled(stopAt) ==
    IF StopPositions(stopAt) = {} THEN Len(match.m.matchers)
    ELSE CHOOSE i \in StopPositions(stopAt) :
             \A j \in StopPositions(stopAt) : i <= j

\* C27: All calls its sub-matchers in order and stops at the first that
\* returns false, Any stops at the first that returns true; the sub-matchers
\* after that one are not called, and the description lists the descriptions
\* of exactly the sub-matchers called, in order.
C27_ShortCircuit ==
    /\ Applied("All") =>
           /\ match.r.ok = (StopPositions(FALSE) = {})
           /\ match.r.evaluated = [i \in 1..LastCalled(FALSE) |-> i]
           /\ match.r.desc =
                  [pattern |-> "all of",
                   arg |-> [i \in 1..LastCalled(FALSE) |-> SubResult(i).desc]]
    /\ Applied("Any") =>
           /\ match.r.ok = (StopPositions(TRUE) # {})
           /\ match.r.evaluated = [i \in 1..LastCalled(TRUE) |-> i]
           /\ match.r.desc =
                  [pattern |-> "any of",
                   arg |-> [i \in 1..LastCalled(TRUE) |-> SubResult(i).desc]]

\* All stopped at its first sub-matcher although the second one matches
C27_Witness ==
    /\ Applied("All")
    /\ Len(match.m.matchers) = 2
    /\ match.r.evaluated = <<1>>
    /\ ~match.r.ok
    /\ SubResult(2).ok
    /\ Len(match.r.desc.arg) = 1

\* C28: Cursor(row, col) matches a Screen exactly when the Screen's cursor
\* position is known and equals (row, col); whatever row and col are, a
\* Screen whose cursor is unknown is not matched.
C28_CursorMatchesKnownPosition ==
    Applied("Cursor") =>
        /\ ~match.r.fault
        /\ match.r.ok <=>
               /\ ~CursorUnknown(match.scr)
               /\ match.scr.cursorRow = match.m.row
               /\ match.scr.cursorCol = match.m.col

\* C29: snapshot normalization is idempotent: normalizing the normalized
\* text of any Screen text gives the normalized text again.
C29_NormalizeIdempotent ==
    snap.pc \in {"normalized", "done"} =>
        normalizeForSnapshot(snap.content) = snap.content

\* trailing spaces and a trailing blank line were removed
C29_Witness ==
    /\ snap.pc = "normalized"
    /\ snap.text = <<"a", " ", "\n", "\n">>
    /\ snap.content = <<"a", "\n">>

\* CRAWLER_UPDATE is exactly "1", "true" or "yes"
UpdateMode == snap.update \in {"1", "true", "yes"}

\* C30: in update mode MatchSnapshot writes the normalized content to the
\* golden file and never fails on a difference of content: it returns
\* unless creating the directory or writing the file fails.  In every other
\* mode it leaves the golden file as it was, fails when the file is missing
\* and fails when the bytes of the file differ from the normalized content.
C30_UpdateOrCompare ==
    snap.pc = "done" =>
        /\ snap.content = normalizeForSnapshot(snap.text)
        /\ UpdateMode =>
               /\ snap.outcome \in {"returned", "failed to create directory",
                                    "failed to write golden file"}
               /\ snap.io \notin {"mkdir", "write"} =>
                      snap.outcome = "returned"
               /\ snap.outcome = "returned" => snap.file = File(snap.content)
        /\ ~UpdateMode =>
               /\ snap.file = snap.before
               /\ ~snap.before.exists => snap.outcome = "golden file not found"
               /\ (snap.before.exists /\ snap.before.bytes # snap.content) =>
                      snap.outcome \in {"mismatch", "failed to read golden file"}
               /\ snap.outcome = "returned" =>
                      snap.before = File(snap.content)

\* an update replaced a golden file that differed from the content
C30_Witness ==
    /\ snap.pc = "done"
    /\ snap.update = "yes"
    /\ snap.before = File(<<"a", " ", "\n">>)
    /\ snap.file = File(<<"a", "\n">>)
    /\ snap.outcome = "returned"

\* the final capture of the death path failed
DeathCaptureFailed ==
    /\ InWaitFor
    /\ QueryReportedDead
    /\ pc = "done"
    /\ hist.deathCaptureErr

\* C31: when the final capture of the death path of WaitFor/WaitForScreen
\* fails, the call still ends in ProcessDied with the exit status; nothing
\* is appended to the history, the matcher is not evaluated, and the
\* description is the one of the previous iteration, or the placeholder
\* when there was none.
C31_DeathCaptureSwallowed ==
    DeathCaptureFailed =>
        LET n == Len(result.history)
        IN /\ result.kind = "ProcessDied"
           /\ test = "failed"
           /\ result.status = state.exitStatus
           /\ lastScreen = NilScreen
           /\ hist.captures = hist.screens + 1
           /\ hist.evals = hist.screens
           /\ hist.evals = hist.queries - 1
           /\ n = Min(hist.screens, failureCaptureHistory)
           /\ \A i \in 1..n : result.history[i].ptr # 0
           /\ result.desc =
                  IF hist.evals = 0 THEN PlaceholderDesc
                  ELSE MatcherEval(call.m, result.history[n]).desc

\* the capture failed in the death report of the second iteration
C31_Witness ==
    /\ DeathCaptureFailed
    /\ result.kind = "ProcessDied"
    /\ result.status = 1
    /\ hist.evals = 1
    /\ Len(result.history) = 1
    /\ result.desc = MatcherEval(call.m, result.history[1]).desc

\* a wait call that passed its option checks
InLoop ==
    /\ call.kind \in WaitKinds
    /\ pc # "idle"
    /\ result.kind # "InvalidConfig"

\* C32: a wait call sleeps only between two consecutive iterations: in its
\* k-th iteration it has slept k-1 times, so a call that ends after k
\* iterations has slept exactly k-1 times and does not sleep after the
\* iteration that ends it; in every iteration the liveness query comes
\* before the capture and the capture before the matcher evaluation.
C32_SleepBetweenIterations ==
    InLoop =>
        /\ pc = "query" =>
              /\ hist.queries = hist.sleeps
              /\ hist.captures = hist.sleeps
        /\ pc \in {"death", "capture"} =>
              /\ hist.queries = hist.sleeps + 1
              /\ hist.captures = hist.sleeps
              /\ hist.evals <= hist.sleeps
        /\ pc = "eval" =>
              /\ hist.queries = hist.sleeps + 1
              /\ hist.captures = hist.sleeps + 1
              /\ hist.evals = hist.sleeps
        /\ pc = "sleep" =>
              /\ hist.queries = hist.sleeps + 1
              /\ hist.captures = hist.sleeps + 1
              /\ InWaitFor => hist.evals = hist.sleeps + 1
        /\ pc = "done" =>
              /\ hist.queries = hist.sleeps + 1
              /\ hist.captures \in {hist.sleeps, hist.sleeps + 1}
              /\ hist.evals <= hist.captures
        /\ ~InWaitFor => hist.evals = 0

\* a call that ended in its third iteration after two sleeps
C32_Witness ==
    /\ InLoop
    /\ InWaitFor
    /\ pc = "done"
    /\ result.kind = "Succeeded"
    /\ hist.queries = 3
    /\ hist.evals = 3
    /\ hist.sleeps = 2

\* generateSocketPath returned a path to Open
PathReturned(o) ==
    openers[o].pc \in {"config", "start", "ready", "panes", "opened"}
    \/ openers[o].term # NoTerminal

\* C33: generateSocketPath returns only a path that its last existence
\* check found missing; it makes at most 10 existence checks, one per
\* generated suffix, and when all 10 checked paths exist it stops the test
\* with a failure instead of returning a path.
C33_SocketPathChecked ==
    \A o \in Openers :
        /\ openers[o].checks <= maxAttempts
        /\ openers[o].pc = "stat" => openers[o].checks = openers[o].i
        /\ PathReturned(o) =>
              /\ openers[o].missing
              /\ openers[o].checks = openers[o].i + 1
        /\ (openers[o].checks = maxAttempts /\ ~openers[o].missing) =>
              /\ ~PathReturned(o)
              /\ openers[o].pc # "stat" =>
                    /\ openers[o].test \in {"failed", "ended"}
                    /\ openers[o].failure \in
                           {"could not generate unique socket path",
                            "failed to generate random bytes"}

\* the path of the tenth check was free after nine collisions
C33_Witness ==
    /\ PathReturned("t1")
    /\ openers["t1"].checks = maxAttempts
    /\ openers["t1"].missing
    /\ openers["t1"].pc = "opened"

\* the runes of [A-Za-z0-9.-]
SafeRunes == (65..90) \cup (97..122) \cup (48..57) \cup {45, 46}

\* C34: for every name, sanitizeName returns at most 60 characters, all of
\* them in [A-Za-z0-9.-] or '_'; the result is the name with every
\* character outside [A-Za-z0-9.-] replaced by one '_', cut to its first 60
\* characters; sanitizeName returns its own output unchanged.
C34_SanitizeName ==
    (fn.pc = "done" /\ fn.op = "sanitizeName") =>
        /\ Len(fn.sanitized) <= 60
        /\ Len(fn.sanitized) = Min(Len(fn.name), 60)
        /\ \A i \in 1..Len(fn.sanitized) :
              /\ fn.sanitized[i] \in SafeRunes \cup {95}
              /\ fn.sanitized[i] =
                     IF fn.name[i] \in SafeRunes THEN fn.name[i] ELSE 95
        /\ sanitizeName(fn.sanitized) = fn.sanitized

\* a name of 61 characters starting with '/' and 'Z'
C34_Witness ==
    /\ fn.pc = "done"
    /\ fn.op = "sanitizeName"
    /\ Len(fn.name) = 61
    /\ fn.name[1] = 47
    /\ fn.name[2] = 90
    /\ Len(fn.sanitized) = 60
    /\ fn.sanitized[1] = 95
    /\ fn.sanitized[2] = 90

\* s without every "\r" that stands immediately before a "\n"
DropCRBeforeLF(s) ==
    LET F[i \in 0..Len(s)] ==
            IF i = 0 THEN <<>>
            ELSE IF s[i] = "\r" /\ i < Len(s) /\ s[i + 1] = "\n"
                 THEN F[i - 1]
                 ELSE Append(F[i - 1], s[i])
    IN F[Len(s)]

EndsWithNL(s) == s # <<>> /\ s[Len(s)] = "\n"

\* C35: the text of a Screen built from a capture is the capture with CRLF
\* replaced by LF and exactly one trailing newline removed, so that a second
\* trailing newline stays as an empty last line; the Screen has at least one
\* line, no line holds a newline, and String() is Lines() joined by newline.
C35_NewScreenText ==
    (fn.pc = "done" /\ fn.op = "newScreen") =>
        LET n == DropCRBeforeLF(fn.raw)
            scr == fn.scr
        IN /\ scr.raw = IF EndsWithNL(n) THEN SubSeq(n, 1, Len(n) - 1) ELSE n
           /\ (EndsWithNL(n) /\ EndsWithNL(SubSeq(n, 1, Len(n) - 1))) =>
                 /\ EndsWithNL(scr.raw)
                 /\ scr.lines[Len(scr.lines)] = <<>>
           /\ Len(scr.lines) >= 1
           /\ \A i \in 1..Len(scr.lines) :
                 \A j \in 1..Len(scr.lines[i]) : scr.lines[i][j] # "\n"
           /\ JoinNL(scr.lines) = scr.raw

\* a capture ending in CRLF and a second newline
C35_Witness ==
    /\ fn.pc = "done"
    /\ fn.op = "newScreen"
    /\ fn.raw = <<"a", "\r", "\n", "\n">>
    /\ fn.scr.raw = <<"a", "\n">>
    /\ fn.scr.lines = << <<"a">>, <<>> >>

\* the length of the longest line of a Screen
LongestLine(scr) ==
    IF \A i \in 1..Len(scr.lines) : scr.lines[i] = <<>> THEN 0
    ELSE CHOOSE w \in { Len(scr.lines[i]) : i \in 1..Len(scr.lines) } :
             \A i \in 1..Len(scr.lines) : Len(scr.lines[i]) <= w

\* C36: the Screen returned by Scrollback() has a height equal to its
\* number of lines and a width equal to the length of its longest line,
\* for every captured text, text with CRLF line endings included.
C36_ScrollbackSize ==
    (fn.pc = "done" /\ fn.op = "Scrollback" /\ fn.outcome = "returned") =>
        /\ fn.scr.height = Len(fn.scr.lines)
        /\ fn.scr.width = LongestLine(fn.scr)

\* the test of o has ended and every cleanup it registered has run
CleanupsDone(o) ==
    /\ openers[o].pc = "cleanup"
    /\ openers[o].cleanups = <<>>
    /\ openers[o].suffix # "none"

\* C37: whatever step of Open stopped the test, once the cleanups of the
\* test have run the session that Open started is on no running server and
\* the config file that Open wrote is removed.
C37_OpenLeavesNothing ==
    \A o \in Openers :
        CleanupsDone(o) =>
            /\ ~(servers[Path(o)].running /\ o \in servers[Path(o)].sessions)
            /\ ConfigFile(Path(o), o) \notin tmp

\* C38: WaitFor/WaitForScreen ends in Succeeded only if the driven process
\* was alive when the matching Screen was captured, wherever the exit of
\* the process falls between the liveness query and the capture.
C38_SucceededOnlyAlive ==
    (InWaitFor /\ result.kind = "Succeeded") => ~hist.deadAtCapture

\* C39: in every TimedOut failure of WaitFor/WaitForScreen the reported
\* description is the one the matcher returned for the newest Screen of the
\* reported history, and that Screen is the last one the call captured: no
\* capture lies between it and the deadline check that failed.
C39_TimedOutDescription ==
    (InWaitFor /\ result.kind = "TimedOut") =>
        LET n == Len(result.history)
        IN /\ n >= 1
           /\ result.history[n] = lastScreen
           /\ lastScreen.ptr = hist.screens
           /\ hist.captures = hist.queries
           /\ hist.screens = hist.evals
           /\ ~MatcherEval(call.m, result.history[n]).ok
           /\ result.desc = MatcherEval(call.m, result.history[n]).desc
           /\ \A i \in 1..(n - 1) :
                 result.history[i].ptr < result.history[n].ptr
           /\ After(now, deadline)

\* a timeout in the second iteration on a Screen that differs from the
\* first one
C39_Witness ==
    /\ InWaitFor
    /\ result.kind = "TimedOut"
    /\ Len(result.history) = 2
    /\ result.history[1].raw # result.history[2].raw
    /\ result.desc = MatcherEval(call.m, result.history[2]).desc
    /\ lastScreen.ptr = 2

\* the step is a Resize call that stops the test
ResizeFails == call.kind # "Resize" /\ call'.kind = "Resize"

\* C40: a Resize(w, h) that fails, because the process is reported dead or
\* because resize-window returns an error, leaves the declared width and
\* height as they were; the declared size changes only in a Resize whose
\* tmux command succeeded, and that Resize returns.
C40_FailedResizeKeepsSize ==
    /\ [][ResizeFails =>
            /\ opts' = opts
            /\ test' = "failed"
            /\ result'.kind \in {"ProcessDied", "AdapterFailure"}
            /\ ~lastResize'.ok]_vars
    /\ [][(opts'.width # opts.width \/ opts'.height # opts.height) =>
            /\ ~ResizeFails
            /\ lastResize'.ok
            /\ test' = "running"
            /\ pc' = "idle"]_vars

\* Resize(6, 3) failed in resize-window on a 4x2 terminal
C40_Witness ==
    /\ call.kind = "Resize"
    /\ result.kind = "AdapterFailure"
    /\ ~lastResize.ok
    /\ lastResize.width = 6
    /\ opts.width = 4
    /\ opts.height = 2

=============================================================================
